---- MODULE Spec2Model ----
(***************************************************************************)
(* A model of the flick compiler pipeline: the tokenizer                   *)
(* (src/src/lexer/tokens.rs), the recursive-descent parser                 *)
(* (src/src/parser.rs) and the code generator                              *)
(* (src/src/compiler/compiler.rs).                                         *)
(*                                                                         *)
(* Characters are Unicode scalar values (integers); a text is a sequence   *)
(* of characters.  The tokenizer's cursor is a Rust &str, which is sliced  *)
(* by BYTE offsets of the UTF-8 encoding, so every slice below goes        *)
(* through len_utf8 and fails (a Rust panic) when the offset is not a      *)
(* character boundary.                                                     *)
(***************************************************************************)
EXTENDS Integers, Sequences, FiniteSets, TLC

VARIABLES
    unparsed,   \* Tokens.unparsed: the text the tokenizer has not consumed
    item,       \* what the last call of Tokens::next returned
    before,     \* history: Tokens.unparsed when that call started
    source,     \* history: the text the tokenizer was constructed on
    calls       \* history: how many times next has been called

lexVars == <<unparsed, item, before, source, calls>>

VARIABLES
    tokens,     \* Parser.tokens: the token sequence being parsed
    parser,     \* Parser.cursor, and whether a panic has ended the parse
    func_defs,  \* parse_program's func_defs
    pstate,     \* "parsing", "returned" (a Program) or "panicked"
    cursor0     \* history: the cursor before the last parse_func_def

parseVars == <<tokens, parser, func_defs, pstate, cursor0>>

VARIABLES
    program,       \* the func_defs of the Program that compile has reached
    compiler,      \* Compiler: the module, the scope manager, a panic
    cstate,        \* "compile", "body", "returned" or "panicked"
    si,            \* how many statements of the body have been entered
    implicit_rets, \* history: the functions that got a synthetic return
    verified,      \* history: the calls of LLVMVerifyFunction, in call order
    released       \* history: the handles Drop has disposed, in call order

compVars == <<program, compiler, cstate, si, implicit_rets, verified, released>>

vars == <<lexVars, parseVars, compVars>>

----------------------------------------------------------------------------
(* Bounds of the model.                                                    *)

\* most function definitions of a Program given to the code generator
MaxFuncs == 2

\* most statements of a function body given to the code generator
MaxBody == 2

\* longest input text, in characters
MaxLen == 4

\* most segments (quote, escape, hex digits, character) of a text with
\* string escapes
MaxEscSegs == 5

\* longest text over the characters of numeric literals
MaxNumLen == 5

\* longest text over the characters of comments
MaxCommentLen == 6

\* longest text with characters no rule of the tokenizer matches
MaxUnknownLen == 4

\* longest run of atoms and operators given to the parser as an expression
MaxExprLen == 5

\* longest parenthesized run inside such an expression
MaxParenLen == 3

\* most segments (function header, brace, statement token) of a program text
MaxSegs == 6

\* longest run of atoms, assignment, comparison and arithmetic operators
\* given to the parser as an expression
MaxAssignLen == 5

\* most segments (statement, newline, brace) of a function body
MaxStmtSegs == 6

\* most tokens after fn f ( ) { of a body with return statements
MaxRetLen == 6

\* most segments (name, argument list, bracket, comma) of a postfix chain
MaxCallSegs == 5

\* most tokens after fn f ( ) { of a body with blank lines and comments
MaxBlankLen == 6

----------------------------------------------------------------------------
(* Characters.                                                             *)

Lower == <<"a","b","c","d","e","f","g","h","i","j","k","l","m",
           "n","o","p","q","r","s","t","u","v","w","x","y","z">>

\* the scalar value of a character literal of the source
Ch(s) ==
    IF \E k \in 1..26 : Lower[k] = s
    THEN 96 + (CHOOSE k \in 1..26 : Lower[k] = s)
    ELSE CASE s = "\t" -> 9   [] s = "\n" -> 10  [] s = "\f" -> 12
           [] s = "\r" -> 13  [] s = " "  -> 32  [] s = "!"  -> 33
           [] s = "\"" -> 34  [] s = "#"  -> 35  [] s = "$"  -> 36
           [] s = "%"  -> 37  [] s = "&"  -> 38  [] s = "'"  -> 39
           [] s = "("  -> 40  [] s = ")"  -> 41  [] s = "*"  -> 42
           [] s = "+"  -> 43  [] s = ","  -> 44  [] s = "-"  -> 45
           [] s = "."  -> 46  [] s = "/"  -> 47  [] s = "0"  -> 48
           [] s = "1"  -> 49  [] s = "2"  -> 50  [] s = "3"  -> 51
           [] s = "4"  -> 52  [] s = "5"  -> 53  [] s = "6"  -> 54
           [] s = "7"  -> 55  [] s = "8"  -> 56  [] s = "D"  -> 68
           [] s = "9"  -> 57  [] s = ":"  -> 58
           [] s = ";"  -> 59  [] s = "<"  -> 60  [] s = "="  -> 61
           [] s = ">"  -> 62  [] s = "?"  -> 63  [] s = "@"  -> 64
           [] s = "E"  -> 69  [] s = "["  -> 91  [] s = "\\" -> 92
           [] s = "]"  -> 93  [] s = "^"  -> 94  [] s = "_"  -> 95
           [] s = "{"  -> 123 [] s = "|"  -> 124 [] s = "}"  -> 125
           [] s = "~"  -> 126
           [] s = "NUL" -> 0
           [] s = "e-acute" -> 233      \* U+00E9, alphabetic, 2 bytes
           [] s = "partial" -> 8706     \* U+2202, not alphabetic, 3 bytes
           [] s = "grinning" -> 128512  \* U+1F600, not alphabetic, 4 bytes

\* the character literals the tokenizer matches on
NEWLINE == Ch("\n")
QUOTE == Ch("\"")
BACKSLASH == Ch("\\")
SLASH == Ch("/")
DOT == Ch(".")
PLUS == Ch("+")
DASH == Ch("-")
UPPER_E == Ch("E")
LOWER_E == Ch("e")
UNDERSCORE == Ch("_")
LOWER_N == Ch("n")
LOWER_R == Ch("r")
LOWER_T == Ch("t")
LOWER_U == Ch("u")
LOWER_X == Ch("x")
ZERO == Ch("0")
NUL == Ch("NUL")
CR == Ch("\r")
TAB == Ch("\t")

\* a string literal of the source, as a text
S(t) == [k \in 1..Len(t) |-> Ch(t[k])]

\* char::len_utf8
len_utf8(c) == IF c < 128 THEN 1 ELSE IF c < 2048 THEN 2 ELSE IF c < 65536 THEN 3 ELSE 4

\* char::is_ascii_whitespace: U+0020, U+0009, U+000A, U+000C, U+000D
is_ascii_whitespace(c) == c \in {32, 9, 10, 12, 13}

\* char::is_whitespace (White_Space), on the characters of the model
is_whitespace(c) == c \in {32, 9, 10, 11, 12, 13, 133, 160}

\* char::is_ascii_digit
is_ascii_digit(c) == c \in 48..57

\* char::is_ascii_hexdigit
is_ascii_hexdigit(c) == c \in 48..57 \/ c \in 65..70 \/ c \in 97..102

\* char::is_alphabetic: the ASCII letters and the non-ASCII letters of the
\* repository's tests (U+00E7, U+00E9, U+00ED)
is_alphabetic(c) == c \in 65..90 \/ c \in 97..122 \/ c \in {231, 233, 237}

----------------------------------------------------------------------------
(* &str: byte lengths, byte-offset slices, find.                           *)

RECURSIVE ByteLen(_)
\* str::len: the length of the UTF-8 encoding
ByteLen(u) == IF u = <<>> THEN 0 ELSE len_utf8(Head(u)) + ByteLen(Tail(u))

\* the byte offset of the k-th character (1-based) of u
ByteOffset(u, k) == ByteLen(SubSeq(u, 1, k - 1))

\* str::is_char_boundary
is_char_boundary(u, n) == \E k \in 1..(Len(u) + 1) : ByteOffset(u, k) = n

\* the 1-based character position that byte offset n (a boundary) starts
CharAt(u, n) == CHOOSE k \in 1..(Len(u) + 1) : ByteOffset(u, k) = n

\* &u[n..]: ok = FALSE is the panic of slicing off a character boundary
SliceFrom(u, n) ==
    IF is_char_boundary(u, n)
    THEN [ok |-> TRUE, s |-> SubSeq(u, CharAt(u, n), Len(u))]
    ELSE [ok |-> FALSE, s |-> <<>>]

\* &u[m..n], for boundaries m <= n
Slice(u, m, n) ==
    IF is_char_boundary(u, m) /\ is_char_boundary(u, n) /\ m <= n
    THEN [ok |-> TRUE, s |-> SubSeq(u, CharAt(u, m), CharAt(u, n) - 1)]
    ELSE [ok |-> FALSE, s |-> <<>>]

\* the 1-based position of the first character satisfying P, 0 if none
FindPos(u, P(_)) ==
    IF \E k \in 1..Len(u) : P(u[k])
    THEN CHOOSE k \in 1..Len(u) : P(u[k]) /\ \A j \in 1..(k - 1) : ~P(u[j])
    ELSE 0

\* str::find(pred): the byte offset of the first match, -1 for None
find(u, P(_)) ==
    LET k == FindPos(u, P) IN IF k = 0 THEN -1 ELSE ByteOffset(u, k)

\* str::find(pred).unwrap_or(str::len())
find_or_len(u, P(_)) ==
    LET i == find(u, P) IN IF i = -1 THEN ByteLen(u) ELSE i

\* str::trim
trim(u) ==
    LET NotWs(c) == ~is_whitespace(c)
        first == FindPos(u, NotWs)
        last == IF first = 0 THEN 0
                ELSE CHOOSE k \in 1..Len(u) :
                        NotWs(u[k]) /\ \A j \in (k + 1)..Len(u) : ~NotWs(u[j])
    IN IF first = 0 THEN <<>> ELSE SubSeq(u, first, last)

----------------------------------------------------------------------------
(* Tokens and lexical errors (crate::lexer).  An item is what               *)
(* Iterator::next returns: Some(Ok(token)), Some(Err(error)) or None; a     *)
(* panic inside next is the fourth outcome.  t is the variant, v its        *)
(* payload.                                                                 *)

Ok(t, v) == [kind |-> "ok", t |-> t, v |-> v]
Err(t, v) == [kind |-> "err", t |-> t, v |-> v]
None == [kind |-> "none", t |-> "", v |-> <<>>]
Panic == [kind |-> "panic", t |-> "", v |-> <<>>]
NotStarted == [kind |-> "start", t |-> "", v |-> <<>>]

\* the single-character punctuation of Tokens::next, as a table over ASCII
PunctuationTable ==
    [c \in 0..127 |->
    CASE c = Ch("&") -> "Ampersand"    [] c = Ch("*") -> "Asterisk"
      [] c = Ch("@") -> "At"           [] c = Ch("\\") -> "Backslash"
      [] c = Ch("^") -> "Caret"        [] c = Ch(":") -> "Colon"
      [] c = Ch(",") -> "Comma"        [] c = Ch("-") -> "Dash"
      [] c = Ch("$") -> "Dollar"       [] c = Ch(".") -> "Dot"
      [] c = Ch("=") -> "Equals"       [] c = Ch("!") -> "Exclamation"
      [] c = Ch("#") -> "Hashtag"      [] c = Ch("\n") -> "Newline"
      [] c = Ch("%") -> "Percent"      [] c = Ch("|") -> "Pipe"
      [] c = Ch("+") -> "Plus"         [] c = Ch("?") -> "Question"
      [] c = Ch("'") -> "SingleQuote"  [] c = Ch("/") -> "Slash"
      [] c = Ch("~") -> "Tilde"
      [] c = Ch("<") -> "OpenBracket(Angle)"
      [] c = Ch(">") -> "CloseBracket(Angle)"
      [] c = Ch("{") -> "OpenBracket(Curly)"
      [] c = Ch("}") -> "CloseBracket(Curly)"
      [] c = Ch("(") -> "OpenBracket(Round)"
      [] c = Ch(")") -> "CloseBracket(Round)"
      [] c = Ch("[") -> "OpenBracket(Square)"
      [] c = Ch("]") -> "CloseBracket(Square)"
      [] OTHER -> ""]

Punctuation(c) == IF c \in 0..127 THEN PunctuationTable[c] ELSE ""

\* the reserved words of Tokens::read_identifier_or_kw
Keywords ==
    { S(<<"a","r","r">>), S(<<"b","o","o","l">>), S(<<"f","l","o","a","t">>),
      S(<<"i","n","t">>), S(<<"m","a","p">>), S(<<"s","e","t">>),
      S(<<"s","t","r">>), S(<<"a","n","d">>), S(<<"f","a","l","s","e">>),
      S(<<"n","o","t">>), S(<<"o","r">>), S(<<"t","r","u","e">>),
      S(<<"f","n">>), S(<<"f","o","r">>), S(<<"i","f">>),
      S(<<"w","h","i","l","e">>) }

----------------------------------------------------------------------------
(* Tokens::read_comment                                                    *)

\* read_comment with every run of 3 or more slashes a Docstring
read_comment_docstring_from_3(u) ==
    LET sliced(n_slashes, source_len, body) ==
            IF ~body.ok THEN [res |-> Panic, len |-> 0]
            ELSE IF n_slashes >= 3
                 THEN [res |-> Ok("Docstring", trim(body.s)), len |-> source_len]
                 ELSE [res |-> Ok("Comment", trim(body.s)), len |-> source_len]
        measured(n_slashes, source_len) ==
            sliced(n_slashes, source_len, Slice(u, n_slashes, source_len))
    IN measured(find_or_len(u, LAMBDA c : c # SLASH),
                find_or_len(u, LAMBDA c : c = NEWLINE))

read_comment(u) ==
    LET sliced(n_slashes, source_len, body) ==
            IF ~body.ok THEN [res |-> Panic, len |-> 0]
            ELSE IF n_slashes = 3
                 THEN [res |-> Ok("Docstring", trim(body.s)), len |-> source_len]
                 ELSE [res |-> Ok("Comment", trim(body.s)), len |-> source_len]
        measured(n_slashes, source_len) ==
            sliced(n_slashes, source_len, Slice(u, n_slashes, source_len))
    IN measured(find_or_len(u, LAMBDA c : c # SLASH),
                find_or_len(u, LAMBDA c : c = NEWLINE))

----------------------------------------------------------------------------
(* Tokens::read_string_literal and its helpers.  The iterator              *)
(* chars().enumerate().skip(1) is the position k (1-based) of the          *)
(* character it yields next; the index enumerate pairs with that character *)
(* is k - 1, a count of CHARACTERS.                                        *)

RECURSIVE HexValue(_)
\* u32::from_str_radix(hex, 16)
HexValue(hex) ==
    IF hex = <<>> THEN 0
    ELSE LET c == hex[Len(hex)]
             d == IF c \in 48..57 THEN c - 48
                  ELSE IF c \in 65..70 THEN c - 55 ELSE c - 87
         IN 16 * HexValue(SubSeq(hex, 1, Len(hex) - 1)) + d

\* char::from_u32(..).unwrap(): the surrogates are not characters
parse_hex_str(hex) ==
    LET n == HexValue(hex)
    IN IF n \in 55296..57343 \/ n > 1114111 THEN Panic ELSE Ok("char", n)

RECURSIVE take_n_hex_chars(_, _, _, _)
\* r is Ok(hex_chars) or the error; k is where the iterator stands after it
take_n_hex_chars(u, k, n, hex_chars) ==
    IF n = 0 THEN [r |-> Ok("hex", hex_chars), k |-> k]
    ELSE IF k > Len(u)
         THEN [r |-> Err("UnterminatedStrLiteral", <<>>), k |-> k]
         ELSE IF is_ascii_hexdigit(u[k])
              THEN take_n_hex_chars(u, k + 1, n - 1, Append(hex_chars, u[k]))
              ELSE [r |-> Err("IncompleteEscape", <<>>), k |-> k]

\* the escape that follows a backslash: iter.next() is position k
parse_escape_in_str_literal(u, k) ==
    IF k > Len(u)
    THEN [r |-> Err("UnterminatedStrLiteral", <<>>), k |-> k]
    ELSE LET c == u[k]
             hex(h) == IF h.r.kind = "ok"
                       THEN [r |-> parse_hex_str(h.r.v), k |-> h.k] ELSE h
         IN
         CASE c = LOWER_N -> [r |-> Ok("char", NEWLINE), k |-> k + 1]
           [] c = LOWER_R -> [r |-> Ok("char", CR), k |-> k + 1]
           [] c = LOWER_T -> [r |-> Ok("char", TAB), k |-> k + 1]
           [] c = BACKSLASH -> [r |-> Ok("char", BACKSLASH), k |-> k + 1]
           [] c = ZERO -> [r |-> Ok("char", NUL), k |-> k + 1]
           [] c = QUOTE -> [r |-> Ok("char", QUOTE), k |-> k + 1]
           [] c = LOWER_U -> hex(take_n_hex_chars(u, k + 1, 4, <<>>))
           [] c = LOWER_X -> hex(take_n_hex_chars(u, k + 1, 2, <<>>))
           [] OTHER -> [r |-> Err("UnknownEscape", c), k |-> k + 1]

\* what read_string_literal returns at the closing quote yielded as (i, c)
StrClosed(contents, parsing_error, i) ==
    [res |-> IF parsing_error.kind = "err" THEN parsing_error
             ELSE Ok("Str", contents),
     len |-> i + 1]

\* StrNewline with the newline's index taken one too small
StrNewlineOffByOne(i) ==
    [res |-> Err("UnterminatedStrLiteral", <<>>), len |-> i - 1]

\* what read_string_literal returns at a raw newline yielded as (i, c)
StrNewline(i) == [res |-> Err("UnterminatedStrLiteral", <<>>), len |-> i]

\* what read_string_literal returns when the iterator is exhausted
StrEnded(u) == [res |-> Err("UnterminatedStrLiteral", <<>>), len |-> ByteLen(u)]

RECURSIVE read_string_loop(_, _, _, _)
\* the loop of read_string_literal, the iterator standing at position k
read_string_loop(u, k, contents, parsing_error) ==
    IF k > Len(u) THEN StrEnded(u)
    ELSE LET i == k - 1
             c == u[k]
             escaped(e) ==
                 CASE e.r.kind = "panic" -> [res |-> Panic, len |-> 0]
                   [] e.r.kind = "ok" ->
                        read_string_loop(u, e.k, Append(contents, e.r.v),
                                         parsing_error)
                   [] OTHER -> read_string_loop(u, e.k, contents, e.r)
         IN CASE c = QUOTE -> StrClosed(contents, parsing_error, i)
              [] c = NEWLINE -> StrNewline(i)
              [] c = BACKSLASH -> escaped(parse_escape_in_str_literal(u, k + 1))
              [] OTHER ->
                   read_string_loop(u, k + 1, Append(contents, c), parsing_error)

\* the first quote is skipped: the iterator starts at the second character
read_string_literal(u) == read_string_loop(u, 2, <<>>, None)

----------------------------------------------------------------------------
(* Tokens::read_numeric_literal                                            *)

\* NumericContinues with a sign allowed after any character
NumericContinuesAnySign(prev, cur) ==
    \/ is_ascii_digit(cur)
    \/ cur = DOT
    \/ cur = UPPER_E
    \/ cur = LOWER_E
    \/ cur = DASH
    \/ cur = PLUS

\* the closure of find: cur may continue a numeric literal after prev
NumericContinues(prev, cur) ==
    \/ is_ascii_digit(cur)
    \/ cur = DOT
    \/ cur = UPPER_E
    \/ cur = LOWER_E
    \/ (cur = DASH \/ cur = PLUS) /\ (prev = UPPER_E \/ prev = LOWER_E)

\* chars().zip(chars().skip(1)).enumerate().find(..).map(|(i, _)| i + 1)
\*     .unwrap_or(len()): pair i (0-based) is (u[i + 1], u[i + 2])
NumericSourceLen(u) ==
    IF \E i \in 0..(Len(u) - 2) : ~NumericContinues(u[i + 1], u[i + 2])
    THEN (CHOOSE i \in 0..(Len(u) - 2) :
             /\ ~NumericContinues(u[i + 1], u[i + 2])
             /\ \A j \in 0..(i - 1) : NumericContinues(u[j + 1], u[j + 2])) + 1
    ELSE ByteLen(u)

\* the decimal digits of i64::MAX, 9223372036854775807
I64MaxDigits == <<9,2,2,3,3,7,2,0,3,6,8,5,4,7,7,5,8,0,7>>

RECURSIVE StripZeros(_)
StripZeros(d) ==
    IF Len(d) > 1 /\ d[1] = 0 THEN StripZeros(Tail(d)) ELSE d

\* d <= e for digit sequences without leading zeros
DigitsLeq(d, e) ==
    \/ Len(d) < Len(e)
    \/ /\ Len(d) = Len(e)
       /\ \/ d = e
          \/ \E k \in 1..Len(d) :
                /\ d[k] < e[k]
                /\ \A j \in 1..(k - 1) : d[j] = e[j]

\* str::parse::<i64>().unwrap() of a run of digits: its value as decimal
\* digits without leading zeros; a value above i64::MAX panics
ParseInt(num) ==
    LET d == StripZeros([k \in 1..Len(num) |-> num[k] - 48])
    IN IF DigitsLeq(d, I64MaxDigits) THEN Ok("Int", d) ELSE Panic

\* the length of the longest run of ASCII digits that u starts with
DigitRun(u) ==
    LET k == FindPos(u, LAMBDA c : ~is_ascii_digit(c))
    IN IF k = 0 THEN Len(u) ELSE k - 1

\* str::parse::<f64>() succeeds on a text that starts with a digit:
\* Digit+ ('.' Digit*)? (('e' | 'E') ('+' | '-')? Digit+)?
FloatParses(num) ==
    LET exponent(r2, r4) ==
            \/ r2 = <<>>
            \/ /\ r2[1] = LOWER_E \/ r2[1] = UPPER_E
               /\ r4 # <<>>
               /\ DigitRun(r4) = Len(r4)
        sign(r3) ==
            IF r3 # <<>> /\ (r3[1] = PLUS \/ r3[1] = DASH) THEN Tail(r3) ELSE r3
        mantissa(n1, r2) ==
            /\ n1 >= 1
            /\ exponent(r2, sign(IF r2 # <<>> THEN Tail(r2) ELSE <<>>))
        fraction(r1) ==
            IF r1 # <<>> /\ r1[1] = DOT
            THEN SubSeq(r1, 2 + DigitRun(Tail(r1)), Len(r1))
            ELSE r1
        integer(n1) == mantissa(n1, fraction(SubSeq(num, n1 + 1, Len(num))))
    IN integer(DigitRun(num))

read_numeric_literal(u) ==
    LET sliced(source_len, num) ==
            IF ~num.ok THEN [res |-> Panic, len |-> 0]
            ELSE IF \E k \in 1..Len(num.s) :
                        num.s[k] = UPPER_E \/ num.s[k] = LOWER_E \/ num.s[k] = DOT
                 THEN IF FloatParses(num.s)
                      THEN [res |-> Ok("Float", num.s), len |-> source_len]
                      ELSE [res |-> Err("FloatParsing", num.s), len |-> source_len]
                 ELSE [res |-> ParseInt(num.s), len |-> source_len]
        measured(source_len) == sliced(source_len, Slice(u, 0, source_len))
    IN measured(NumericSourceLen(u))

----------------------------------------------------------------------------
(* Tokens::read_identifier_or_kw                                           *)

read_identifier_or_kw(u) ==
    LET sliced(source_len, name) ==
            IF ~name.ok THEN [res |-> Panic, len |-> 0]
            ELSE IF name.s \in Keywords
                 THEN [res |-> Ok("Keyword", name.s), len |-> source_len]
                 ELSE [res |-> Ok("Identifier", name.s), len |-> source_len]
        measured(source_len) == sliced(source_len, Slice(u, 0, source_len))
    IN measured(find_or_len(u, LAMBDA c :
                    ~(is_alphabetic(c) \/ is_ascii_digit(c) \/ c = UNDERSCORE)))

----------------------------------------------------------------------------
(* Tokens::next                                                            *)

\* UnknownCharArm with a source length of one byte
UnknownCharOneByte(c) == [res |-> Err("UnknownChar", c), len |-> 1]

\* the last arm of the match: (c, _) => (Err(UnknownChar(c)), c.len_utf8())
UnknownCharArm(c) == [res |-> Err("UnknownChar", c), len |-> len_utf8(c)]

\* the match on (cur, next) of Tokens::next; nxt is -1 when peek() is None
NextMatch(u, cur, nxt) ==
    CASE cur = SLASH /\ nxt = SLASH -> read_comment(u)
      [] cur = QUOTE -> read_string_literal(u)
      [] cur # QUOTE /\ ~(cur = SLASH /\ nxt = SLASH)
             /\ Punctuation(cur) # "" ->
           [res |-> Ok("Punctuation", Punctuation(cur)), len |-> 1]
      [] Punctuation(cur) = "" /\ cur # QUOTE /\ is_ascii_digit(cur) ->
           read_numeric_literal(u)
      [] Punctuation(cur) = "" /\ cur # QUOTE
             /\ (is_alphabetic(cur) \/ cur = UNDERSCORE) ->
           read_identifier_or_kw(u)
      [] OTHER -> UnknownCharArm(cur)

\* one call of next on the cursor u: the item it returns and the cursor it
\* leaves.  A panic leaves the cursor where the whitespace skip put it.
next(u) ==
    LET advanced(u1, m, rest) ==
            IF m.res.kind = "panic" \/ ~rest.ok
            THEN [item |-> Panic, unparsed |-> u1]
            ELSE [item |-> m.res, unparsed |-> rest.s]
        matched(u1, m) == advanced(u1, m, SliceFrom(u1, m.len))
        skipped(u1) ==
            matched(u1, NextMatch(u1, u1[1], IF Len(u1) >= 2 THEN u1[2] ELSE -1))
        found(i) ==
            IF i = -1 THEN [item |-> None, unparsed |-> u]
            ELSE skipped(SliceFrom(u, i).s)
    IN found(find(u, LAMBDA c : ~is_ascii_whitespace(c) \/ c = NEWLINE))

----------------------------------------------------------------------------
(* The components run one at a time: while one is modelled the others      *)
(* stay in their idle state.                                                *)

\* no parser has been constructed
ParserIdle ==
    /\ tokens = <<>>
    /\ parser = [cursor |-> 0, err |-> "", adv |-> TRUE, ends |-> <<>>]
    /\ func_defs = <<>>
    /\ pstate = "idle"
    /\ cursor0 = 0

\* no code generator has been constructed
CompilerIdle ==
    /\ program = <<>>
    /\ compiler = [module |-> <<>>, scope_manager |-> <<>>, err |-> ""]
    /\ cstate = "idle"
    /\ si = 0
    /\ implicit_rets = {}
    /\ verified = <<>>
    /\ released = <<>>

\* no tokenizer has been constructed
LexIdle ==
    /\ unparsed = <<>>
    /\ item = [kind |-> "idle", t |-> "", v |-> <<>>]
    /\ before = <<>>
    /\ source = <<>>
    /\ calls = 0

----------------------------------------------------------------------------
(* The tokenizer as a state machine: the input text is any text of at most *)
(* MaxLen characters over LexAlphabet, and each step is one call of next   *)
(* (what collect() does until next returns None).                          *)

LexAlphabet ==
    { Ch(" "), Ch("\n"), Ch("\""), Ch("\\"), Ch("/"), Ch("1"), Ch("a"),
      Ch("+"), Ch("e-acute"), Ch("partial") }

Texts(A, n) == UNION { [1..k -> A] : k \in 0..n }

LexInit ==
    /\ unparsed \in Texts(LexAlphabet, MaxLen)
    /\ item = NotStarted
    /\ before = <<>>
    /\ source = unparsed
    /\ calls = 0
    /\ ParserIdle
    /\ CompilerIdle

\* the caller of next keeps the item; the cursor is the tokenizer's
Yield(r) ==
    /\ item' = r.item
    /\ unparsed' = r.unparsed

TokensNext ==
    /\ item.kind \notin {"none", "panic"}
    /\ Yield(next(unparsed))
    /\ before' = unparsed
    /\ calls' = calls + 1
    /\ UNCHANGED source
    /\ UNCHANGED <<parseVars, compVars>>

LexNext == TokensNext

LexSpec == LexInit /\ [][LexNext]_vars

\* the concatenation of a sequence of texts
RECURSIVE Flatten(_)
Flatten(ss) == IF ss = <<>> THEN <<>> ELSE Head(ss) \o Flatten(Tail(ss))

\* the tokenizer starts on the text `texts` may be any of
LexInitOn(texts) ==
    /\ unparsed \in texts
    /\ item = NotStarted
    /\ before = <<>>
    /\ source = unparsed
    /\ calls = 0
    /\ ParserIdle
    /\ CompilerIdle

(* Texts with string escapes: the pieces of a literal with \u and \x      *)
(* escapes, complete (D800 is a surrogate, 0041 is 'A', 41 is 'A') or cut  *)
(* short, an escape character the tokenizer does not know, and a          *)
(* character of two bytes.                                                 *)
EscSegments ==
    { <<QUOTE>>, <<BACKSLASH, LOWER_U>>, <<BACKSLASH, LOWER_X>>,
      <<Ch("D"), Ch("8")>>, <<Ch("0"), Ch("0")>>, <<Ch("4"), Ch("1")>>,
      <<Ch("4")>>, <<BACKSLASH, Ch("q")>>, <<Ch("e-acute")>> }

EscTexts(n) == { Flatten(ss) : ss \in Texts(EscSegments, n) }

EscSpec == LexInitOn(EscTexts(MaxEscSegs)) /\ [][LexNext]_vars

(* Texts with numeric literals: every short text over the characters a     *)
(* numeric literal is scanned for, the decimal texts around i64::MAX       *)
(* (its first 18 digits and any last digit), 20 nines, and the input of    *)
(* the test err_given_float_with_e_pm.                                      *)
NumAlphabet ==
    { Ch("1"), Ch("."), Ch("E"), Ch("e"), Ch("+"), Ch("-"), Ch("a") }

\* the decimal text of a sequence of digits
DecimalText(d) == [k \in 1..Len(d) |-> 48 + d[k]]

LongDigitRuns ==
    { DecimalText(SubSeq(I64MaxDigits, 1, 18) \o <<c>>) : c \in 0..9 }
        \cup { [k \in 1..20 |-> Ch("9")] }

FloatWithEPmSource ==
    S(<<"1", ".", "2", "3", "1", "2", "E", "+", "-", "9", "9", "9", "9">>)

NumTexts(n) ==
    Texts(NumAlphabet, n) \cup LongDigitRuns \cup {FloatWithEPmSource}

NumSpec == LexInitOn(NumTexts(MaxNumLen)) /\ [][LexNext]_vars

(* Texts with comments: slashes, newlines, blanks and body characters of  *)
(* one and two bytes.                                                      *)
CommentAlphabet ==
    { Ch("/"), Ch("\n"), Ch(" "), Ch("a"), Ch("e-acute") }

CommentSpec ==
    LexInitOn(Texts(CommentAlphabet, MaxCommentLen)) /\ [][LexNext]_vars

(* Texts with characters that no rule matches, of 1, 3 and 4 bytes, among *)
(* characters that rules do match.                                         *)
UnknownAlphabet ==
    { Ch(";"), Ch("partial"), Ch("grinning"), Ch("e-acute"), Ch("a"),
      Ch(" "), Ch("+") }

UnknownSpec == LexInitOn(Texts(UnknownAlphabet, MaxUnknownLen)) /\ [][LexNext]_vars

----------------------------------------------------------------------------
(* The parser (src/src/parser.rs).  A token is [t, v]: t the variant of    *)
(* crate::token::Token and v its payload ("" when it has none).  The       *)
(* parser's own state is the cursor; a panic is recorded in err and ends   *)
(* every function on the call stack.  Each parse function is an operator   *)
(* from (tokens, parser) to [p: the parser after it, v: what it returns].  *)

Tok(t) == [t |-> t, v |-> ""]
TokV(t, v) == [t |-> t, v |-> v]
Op(v) == [t |-> "OperatorSymbol", v |-> v]

\* Option::None of tokens.get
NoToken == [t |-> "None", v |-> ""]

\* no value: what a function that panicked "returns"
NoValue == [e |-> "NoValue"]

\* Parser::new
ParserNew == [cursor |-> 0, err |-> "", adv |-> TRUE, ends |-> <<>>]

R(p, v) == [p |-> p, v |-> v]

\* panic!(msg)
Fail(p, msg) == R([p EXCEPT !.err = msg], NoValue)

\* tokens.get(i), 0-based
Get(ts, i) == IF i >= 0 /\ i < Len(ts) THEN ts[i + 1] ELSE NoToken

\* Parser::next_token: the token at the cursor; the cursor moves even at
\* the end of the tokens
next_token(ts, p) == R([p EXCEPT !.cursor = p.cursor + 1], Get(ts, p.cursor))

\* Parser::peek_token
peek_token(ts, p, n) == Get(ts, p.cursor + (n - 1))

\* Parser::skip_token
skip_token(p) == [p EXCEPT !.cursor = p.cursor + 1]

\* history: the end of a loop iteration that started with the cursor at c0;
\* adv records whether every iteration so far moved the cursor forward
Iter(p, c0) == [p EXCEPT !.adv = p.adv /\ p.cursor > c0]

\* the rest K of a function runs on what a call returned unless the call
\* panicked: the panic ends the function too
Then(r, K(_)) == IF r.p.err # "" THEN r ELSE K(r)

\* Parser::assert_next_token
assert_next_token(ts, p, expected) ==
    Then(next_token(ts, p), LAMBDA r :
        IF r.v = expected THEN R(r.p, expected)
        ELSE IF r.v = NoToken THEN Fail(r.p, "Expected token but file ended")
        ELSE Fail(r.p, "Expected token but received another"))

\* Parser::parse_type
parse_type(ts, p) ==
    Then(next_token(ts, p), LAMBDA r :
        IF r.v.t = "Type" THEN R(r.p, r.v.v)
        ELSE Fail(r.p, "Expected type of variable"))

\* Parser::parse_identifier
parse_identifier(ts, p) ==
    Then(next_token(ts, p), LAMBDA r :
        IF r.v.t = "Identifier" THEN R(r.p, r.v.v)
        ELSE Fail(r.p, "Expected identifier"))

\* Parser::parse_atom
parse_atom(ts, p) ==
    Then(next_token(ts, p), LAMBDA r :
        CASE r.v.t = "Identifier" -> R(r.p, [e |-> "Identifier", id |-> r.v.v])
          [] r.v.t = "I64Literal" -> R(r.p, [e |-> "I64Literal", n |-> r.v.v])
          [] OTHER -> Fail(r.p, "Expected identifier or literal"))

ASSIGNMENT_SYMBOLS == {"PlusEq", "TimesEq", "MinusEq", "DivideEq", "Assign"}

COMPARISON_SYMBOLS ==
    {"EqualTo", "NotEqualTo", "LessThan", "LessOrEqualTo", "GreaterThan",
     "GreaterOrEqualTo"}

\* BinaryOperator::from(OperatorSymbol)
BinaryOperatorFrom(op_symbol) ==
    CASE op_symbol = "Plus" -> "Add"
      [] op_symbol = "Minus" -> "Subtract"
      [] op_symbol = "Asterisk" -> "Multiply"
      [] op_symbol = "Slash" -> "Divide"
      [] OTHER -> op_symbol

\* Expr::BinExpr(BinExpr { left, operator, right })
BinExpr(left, operator, right) ==
    [e |-> "BinExpr", left |-> left, operator |-> operator, right |-> right]

\* Expr::CallExpr(CallExpr { function_name, args })
CallExpr(function_name, args) ==
    [e |-> "CallExpr", function_name |-> function_name, args |-> args]

\* Some(Token::OperatorSymbol(s)) with s one of the symbols
IsOperator(t1, symbols) == t1.t = "OperatorSymbol" /\ t1.v \in symbols

RECURSIVE parse_expr(_, _), parse_assignment_expr(_, _),
          parse_comparison_expression(_, _), parse_add_sub_expr(_, _),
          add_sub_loop(_, _, _), parse_mul_div_expr(_, _),
          mul_div_loop(_, _, _), parse_primary_expr(_, _),
          parse_call_expr(_, _), call_loop(_, _, _), parse_args(_, _),
          args_loop(_, _, _)

\* Parser::parse_index: todo!()
parse_index(ts, p) == Fail(p, "not yet implemented")

\* the loop of parse_args: push an argument, then ')' ends and ',' goes on
args_loop(ts, p, args) ==
    Then(parse_expr(ts, p), LAMBDA a :
    Then(next_token(ts, a.p), LAMBDA r :
        LET q == Iter(r.p, p.cursor)
        IN CASE r.v.t = "RParen" -> R(q, Append(args, a.v))
             [] r.v.t = "Comma" -> args_loop(ts, q, Append(args, a.v))
             [] OTHER -> Fail(q, "Expected ')'")))

\* Parser::parse_args
parse_args(ts, p) ==
    Then(assert_next_token(ts, p, Tok("LParen")), LAMBDA o :
        IF peek_token(ts, o.p, 1).t = "RParen"
        THEN R(skip_token(o.p), <<>>)
        ELSE args_loop(ts, o.p, <<>>))

\* call_loop with the callee of a new call the callee of the call built so
\* far, not that call
call_loop_same_callee(ts, p, expr_so_far) ==
    LET t1 == peek_token(ts, p, 1)
    IN CASE t1.t = "LParen" ->
              Then(parse_args(ts, p), LAMBDA a :
                  call_loop(ts, Iter(a.p, p.cursor),
                            CallExpr(IF expr_so_far.e = "CallExpr"
                                     THEN expr_so_far.function_name
                                     ELSE expr_so_far, a.v)))
         [] t1.t = "LSquare" -> parse_index(ts, p)
         [] OTHER -> R(p, expr_so_far)

\* the loop of parse_call_expr: wrap expr_so_far while '(' or '[' follows
call_loop(ts, p, expr_so_far) ==
    LET t1 == peek_token(ts, p, 1)
    IN CASE t1.t = "LParen" ->
              Then(parse_args(ts, p), LAMBDA a :
                  call_loop(ts, Iter(a.p, p.cursor), CallExpr(expr_so_far, a.v)))
         [] t1.t = "LSquare" -> parse_index(ts, p)
         [] OTHER -> R(p, expr_so_far)

\* Parser::parse_call_expr
parse_call_expr(ts, p) ==
    Then(parse_atom(ts, p), LAMBDA a : call_loop(ts, a.p, a.v))

\* Parser::parse_primary_expr
parse_primary_expr(ts, p) ==
    LET t1 == peek_token(ts, p, 1)
        t2 == peek_token(ts, p, 2)
    IN CASE t1.t = "LParen" ->
              Then(parse_expr(ts, skip_token(p)), LAMBDA x :
              Then(assert_next_token(ts, x.p, Tok("RParen")), LAMBDA c :
                  R(c.p, x.v)))
         [] t1.t = "Identifier" /\ t2.t \in {"LParen", "LSquare"} ->
              parse_call_expr(ts, p)
         [] OTHER -> parse_atom(ts, p)

\* the loop of parse_mul_div_expr
mul_div_loop(ts, p, left_expr_so_far) ==
    LET t1 == peek_token(ts, p, 1)
    IN IF IsOperator(t1, {"Asterisk", "Slash"})
       THEN Then(parse_primary_expr(ts, skip_token(p)), LAMBDA right :
                mul_div_loop(ts, Iter(right.p, p.cursor),
                             BinExpr(left_expr_so_far, BinaryOperatorFrom(t1.v),
                                     right.v)))
       ELSE R(p, left_expr_so_far)

\* Parser::parse_mul_div_expr
parse_mul_div_expr(ts, p) ==
    Then(parse_primary_expr(ts, p), LAMBDA l : mul_div_loop(ts, l.p, l.v))

\* the loop of parse_add_sub_expr
add_sub_loop(ts, p, left_expr_so_far) ==
    LET t1 == peek_token(ts, p, 1)
    IN IF IsOperator(t1, {"Plus", "Minus"})
       THEN Then(parse_mul_div_expr(ts, skip_token(p)), LAMBDA right :
                add_sub_loop(ts, Iter(right.p, p.cursor),
                             BinExpr(left_expr_so_far, BinaryOperatorFrom(t1.v),
                                     right.v)))
       ELSE R(p, left_expr_so_far)

\* parse_add_sub_expr taking a primary expression as its first operand
parse_add_sub_expr_flat(ts, p) ==
    Then(parse_primary_expr(ts, p), LAMBDA l : add_sub_loop(ts, l.p, l.v))

\* Parser::parse_add_sub_expr
parse_add_sub_expr(ts, p) ==
    Then(parse_mul_div_expr(ts, p), LAMBDA l : add_sub_loop(ts, l.p, l.v))

\* parse_comparison_expression without the look at the token after the
\* right operand
parse_comparison_expression_unchecked(ts, p) ==
    Then(parse_add_sub_expr(ts, p), LAMBDA left :
        LET t1 == peek_token(ts, left.p, 1)
        IN IF ~IsOperator(t1, COMPARISON_SYMBOLS) THEN left
           ELSE Then(parse_add_sub_expr(ts, skip_token(left.p)), LAMBDA right :
                    R(right.p, BinExpr(left.v, BinaryOperatorFrom(t1.v),
                                       right.v))))

\* Parser::parse_comparison_expression
parse_comparison_expression(ts, p) ==
    Then(parse_add_sub_expr(ts, p), LAMBDA left :
        LET t1 == peek_token(ts, left.p, 1)
        IN IF ~IsOperator(t1, COMPARISON_SYMBOLS) THEN left
           ELSE Then(parse_add_sub_expr(ts, skip_token(left.p)), LAMBDA right :
                    IF IsOperator(peek_token(ts, right.p, 1), COMPARISON_SYMBOLS)
                    THEN Fail(right.p, "Comparison operators cannot be chained")
                    ELSE R(right.p, BinExpr(left.v, BinaryOperatorFrom(t1.v),
                                            right.v))))

\* Parser::parse_logical_and_expr
parse_logical_and_expr(ts, p) == parse_comparison_expression(ts, p)

\* Parser::parse_logical_or_expr
parse_logical_or_expr(ts, p) == parse_logical_and_expr(ts, p)

RECURSIVE parse_assignment_expr_right_operand(_, _)
\* parse_assignment_expr with the right operand parsed one tier up, as a
\* logical-or expression
parse_assignment_expr_right_operand(ts, p) ==
    Then(parse_logical_or_expr(ts, p), LAMBDA left :
        LET t1 == peek_token(ts, left.p, 1)
        IN IF ~IsOperator(t1, ASSIGNMENT_SYMBOLS) THEN left
           ELSE Then(parse_logical_or_expr(ts, skip_token(left.p)),
                     LAMBDA right :
                         R(right.p, BinExpr(left.v, BinaryOperatorFrom(t1.v),
                                            right.v))))

\* Parser::parse_assignment_expr
parse_assignment_expr(ts, p) ==
    Then(parse_logical_or_expr(ts, p), LAMBDA left :
        LET t1 == peek_token(ts, left.p, 1)
        IN IF ~IsOperator(t1, ASSIGNMENT_SYMBOLS) THEN left
           ELSE Then(parse_assignment_expr(ts, skip_token(left.p)),
                     LAMBDA right :
                         R(right.p, BinExpr(left.v, BinaryOperatorFrom(t1.v),
                                            right.v))))

\* Parser::parse_expr
parse_expr(ts, p) == parse_assignment_expr(ts, p)

\* Option::None of parse_statement and parse_func_def
NoneValue == [e |-> "None"]

\* the loop of skip_newlines_comments_and_docstrings
RECURSIVE skip_newlines_comments_and_docstrings(_, _)
skip_newlines_comments_and_docstrings(ts, p) ==
    IF peek_token(ts, p, 1).t \in {"Newline", "Comment", "Docstring"}
    THEN skip_newlines_comments_and_docstrings(
             ts, Iter(skip_token(p), p.cursor))
    ELSE p

\* Parser::parse_var_dec
parse_var_dec(ts, p) ==
    Then(parse_type(ts, p), LAMBDA var_type :
    Then(parse_identifier(ts, var_type.p), LAMBDA var_name :
    Then(assert_next_token(ts, var_name.p, Op("Assign")), LAMBDA eq :
    Then(parse_expr(ts, eq.p), LAMBDA var_value :
        R(var_value.p, [s |-> "VarDeclaration",
                        var_name |-> var_name.v,
                        var_type |-> var_type.v,
                        var_value |-> var_value.v])))))

\* Parser::parse_return_statement
parse_return_statement(ts, p) ==
    Then(assert_next_token(ts, p, Tok("Ret")), LAMBDA k :
    Then(parse_expr(ts, k.p), LAMBDA x :
        R(x.p, [s |-> "ReturnStatement", expr |-> x.v])))

RECURSIVE parse_statement(_, _), parse_body(_, _), body_loop(_, _, _),
          parse_while_loop(_, _)

\* Parser::parse_while_loop
parse_while_loop(ts, p) ==
    Then(assert_next_token(ts, p, Tok("While")), LAMBDA k :
    Then(parse_expr(ts, k.p), LAMBDA condition :
    Then(parse_body(ts, condition.p), LAMBDA body :
        R(body.p, [s |-> "WhileLoop", condition |-> condition.v,
                   body |-> body.v]))))

\* history: a statement has been parsed and the cursor stands behind it;
\* ends lists where the cursor stood at each such moment
Ended(p) == [p EXCEPT !.ends = Append(p.ends, p.cursor)]

ExpectedNewline == "Expected newline or EOF"

\* StatementEnd with a closing '}' accepted after a statement and left for
\* parse_body
StatementEndBeforeBrace(ts, statement) ==
    Then(statement, LAMBDA s :
        IF peek_token(ts, s.p, 1).t = "RSquirly" THEN R(Ended(s.p), s.v)
        ELSE Then(next_token(ts, Ended(s.p)), LAMBDA r :
                 IF r.v.t = "Newline" \/ r.v = NoToken THEN R(r.p, s.v)
                 ELSE Fail(r.p, ExpectedNewline)))

\* the newline or end of input that must follow a statement
StatementEnd(ts, statement) ==
    Then(statement, LAMBDA s :
    Then(next_token(ts, Ended(s.p)), LAMBDA r :
        IF r.v.t = "Newline" \/ r.v = NoToken THEN R(r.p, s.v)
        ELSE Fail(r.p, ExpectedNewline)))

\* the statement that starts with the token t1
StatementAt(ts, q, t1) ==
    CASE t1.t = "Type" -> parse_var_dec(ts, q)
      [] t1.t = "While" -> parse_while_loop(ts, q)
      [] t1.t = "Fn" -> Fail(q, "Nested function definitions are not allowed")
      [] t1.t = "Ret" -> parse_return_statement(ts, q)
      [] OTHER ->
           Then(parse_expr(ts, q), LAMBDA x :
               R(x.p, [s |-> "ExprStatement", expr |-> x.v]))

\* Parser::parse_statement
parse_statement(ts, p) ==
    LET q == skip_newlines_comments_and_docstrings(ts, p)
        t1 == peek_token(ts, q, 1)
    IN IF t1 = NoToken THEN R(q, NoneValue)
       ELSE StatementEnd(ts, StatementAt(ts, q, t1))

\* the loop of parse_body: statements until '}' or the end of the tokens
body_loop(ts, p, body) ==
    LET t1 == peek_token(ts, p, 1)
    IN IF t1 = NoToken \/ t1.t = "RSquirly" THEN R(p, body)
       ELSE Then(parse_statement(ts, p), LAMBDA st :
                IF st.v = NoneValue
                THEN Fail(st.p, "Expected body to be closed but file ended")
                ELSE body_loop(ts, Iter(st.p, p.cursor), Append(body, st.v)))

\* Parser::parse_body
parse_body(ts, p) ==
    Then(assert_next_token(ts, p, Tok("LSquirly")), LAMBDA o :
    Then(body_loop(ts, o.p, <<>>), LAMBDA b :
    Then(assert_next_token(ts, b.p, Tok("RSquirly")), LAMBDA c :
        R(c.p, b.v))))

\* Parser::parse_func_param
parse_func_param(ts, p) ==
    Then(parse_type(ts, p), LAMBDA param_type :
    Then(parse_identifier(ts, param_type.p), LAMBDA param_name :
        R(param_name.p, [param_type |-> param_type.v,
                         param_name |-> param_name.v])))

RECURSIVE params_loop(_, _, _)
\* the loop of parse_func_params
params_loop(ts, p, params) ==
    Then(parse_func_param(ts, p), LAMBDA a :
    Then(next_token(ts, a.p), LAMBDA r :
        LET q == Iter(r.p, p.cursor)
        IN CASE r.v.t = "RParen" -> R(q, Append(params, a.v))
             [] r.v.t = "Comma" -> params_loop(ts, q, Append(params, a.v))
             [] OTHER -> Fail(q, "Expected ')'")))

\* Parser::parse_func_params
parse_func_params(ts, p) ==
    Then(assert_next_token(ts, p, Tok("LParen")), LAMBDA o :
        IF peek_token(ts, o.p, 1).t = "RParen"
        THEN R(skip_token(o.p), <<>>)
        ELSE params_loop(ts, o.p, <<>>))

\* the return type of parse_func_def: Void when '{' follows the parameters
ReturnType(ts, p) ==
    LET t1 == peek_token(ts, p, 1)
    IN CASE t1.t = "LSquirly" -> R(p, "Void")
         [] t1.t = "Type" -> parse_type(ts, p)
         [] OTHER -> Fail(p, "Expected return type for function")

\* parse_func_def without the panic on a token that is not fn
FnKeywordLenient(ts, p) ==
    LET t1 == peek_token(ts, p, 1)
    IN IF t1.t = "Fn" THEN R(skip_token(p), t1) ELSE R(p, NoneValue)

\* the match on peek_token(1)? of parse_func_def: None at the end of the
\* tokens, fn is skipped, any other token is a panic
FnKeyword(ts, p) ==
    LET t1 == peek_token(ts, p, 1)
    IN IF t1 = NoToken THEN R(p, NoneValue)
       ELSE IF t1.t = "Fn" THEN R(skip_token(p), t1)
       ELSE Fail(p, "Expected Token::Fn")

\* Parser::parse_func_def
parse_func_def(ts, p) ==
    Then(FnKeyword(ts, skip_newlines_comments_and_docstrings(ts, p)), LAMBDA k :
        IF k.v = NoneValue THEN k
        ELSE
    Then(parse_identifier(ts, k.p), LAMBDA name :
    Then(parse_func_params(ts, name.p), LAMBDA params :
    Then(ReturnType(ts, params.p), LAMBDA return_type :
    Then(parse_body(ts, return_type.p), LAMBDA body :
        R(body.p, [name |-> name.v, params |-> params.v,
                   return_type |-> return_type.v, body |-> body.v]))))))

----------------------------------------------------------------------------
(* The parser as a state machine: Parser::new(tokens), then parse_program, *)
(* one step per iteration of its loop (one call of parse_func_def).        *)

\* func_defs.push(func_def) of parse_program, its return at None and its
\* panic
PushFuncDef(r) ==
    /\ parser' = r.p
    /\ cursor0' = parser.cursor
    /\ IF r.p.err # ""
       THEN pstate' = "panicked" /\ func_defs' = <<>>
       ELSE IF r.v = NoneValue
            THEN pstate' = "returned" /\ UNCHANGED func_defs
            ELSE pstate' = "parsing" /\ func_defs' = Append(func_defs, r.v)

\* one iteration of the loop of Parser::parse_program
ParseProgramStep ==
    /\ pstate = "parsing"
    /\ PushFuncDef(parse_func_def(tokens, parser))
    /\ UNCHANGED tokens
    /\ UNCHANGED <<lexVars, compVars>>

ParseNext == ParseProgramStep

\* the tokens of one-token segments
IdentX == TokV("Identifier", "x")
Lit1 == TokV("I64Literal", "1")
TypeI64 == TokV("Type", "I64")

\* fn f ( )
HeaderF == <<Tok("Fn"), TokV("Identifier", "f"), Tok("LParen"), Tok("RParen")>>

\* fn g ( i64 a , i64 b ) i64
HeaderG ==
    <<Tok("Fn"), TokV("Identifier", "g"), Tok("LParen"),
      TypeI64, TokV("Identifier", "a"), Tok("Comma"),
      TypeI64, TokV("Identifier", "b"), Tok("RParen"), TypeI64>>

\* the segments program texts are made of
ProgSegments ==
    { HeaderF, HeaderG, <<Tok("LSquirly")>>, <<Tok("RSquirly")>>,
      <<Tok("Newline")>>, <<IdentX>> }


\* program texts: at most MaxSegs segments
ProgTexts(n) == { Flatten(ss) : ss \in Texts(ProgSegments, n) }

ParseInit ==
    /\ tokens \in ProgTexts(MaxSegs)
    /\ parser = ParserNew
    /\ func_defs = <<>>
    /\ pstate = "parsing"
    /\ cursor0 = 0
    /\ LexIdle
    /\ CompilerIdle

ParseSpec == ParseInit /\ [][ParseNext]_vars

(* Expressions: the body of fn f() { <expr> \n } is one expression         *)
(* statement.                                                              *)

ExprAtoms == { IdentX, Lit1 }
ArithOps == { Op("Plus"), Op("Minus"), Op("Asterisk"), Op("Slash") }

\* runs of atoms and the four arithmetic operators
RawExprs(n) == Texts(ExprAtoms \cup ArithOps, n)

\* such runs with one parenthesized part: ( e ), a op ( e ), ( e ) op a
ParenExprs(n) ==
    LET inner == { <<Tok("LParen")>> \o e \o <<Tok("RParen")>> :
                       e \in RawExprs(n) }
    IN inner
       \cup { <<a, o>> \o i : a \in ExprAtoms, o \in ArithOps, i \in inner }
       \cup { i \o <<o, a>> : a \in ExprAtoms, o \in ArithOps, i \in inner }

Lit(n) == TokV("I64Literal", n)

\* 10 + 3 * 8 / 4 - 13 + 5 (tests::order_of_operations)
OrderOfOperationsSource ==
    <<Lit("10"), Op("Plus"), Lit("3"), Op("Asterisk"), Lit("8"), Op("Slash"),
      Lit("4"), Op("Minus"), Lit("13"), Op("Plus"), Lit("5")>>

\* 9*(2+3) (tests::parenthetical_expression)
ParentheticalSource ==
    <<Lit("9"), Op("Asterisk"), Tok("LParen"), Lit("2"), Op("Plus"), Lit("3"),
      Tok("RParen")>>

ExprTexts(n, m) ==
    RawExprs(n) \cup ParenExprs(m)
        \cup {OrderOfOperationsSource, ParentheticalSource}

\* fn f ( ) { <expr> \n }
InFunction(e) ==
    HeaderF \o <<Tok("LSquirly")>> \o e \o <<Tok("Newline"), Tok("RSquirly")>>

ExprInit ==
    /\ tokens \in { InFunction(e) : e \in ExprTexts(MaxExprLen, MaxParenLen) }
    /\ parser = ParserNew
    /\ func_defs = <<>>
    /\ pstate = "parsing"
    /\ cursor0 = 0
    /\ LexIdle
    /\ CompilerIdle

ExprSpec == ExprInit /\ [][ParseNext]_vars

(* Assignments and comparisons: the same function body, its expression a  *)
(* run of atoms, assignment operators, comparison operators and +,        *)
(* every 'name op value' with a compound operator, the input of the test  *)
(* var_modification, and comparisons with a parenthesized comparison as   *)
(* an operand.                                                             *)

CompoundSymbols == {"PlusEq", "MinusEq", "TimesEq", "DivideEq"}

AssignOps == { Op("Assign"), Op("PlusEq") }
CompareOps == { Op("LessThan"), Op("EqualTo") }

\* num = a = 10 (tests::var_modification)
VarModificationSource ==
    <<TokV("Identifier", "num"), Op("Assign"), TokV("Identifier", "a"),
      Op("Assign"), Lit("10")>>

\* ( x < 1 ) < 1 and x < ( x < 1 )
ParenComparisons ==
    { <<Tok("LParen"), IdentX, Op("LessThan"), Lit1, Tok("RParen"),
        Op("LessThan"), Lit1>>,
      <<IdentX, Op("LessThan"), Tok("LParen"), IdentX, Op("LessThan"), Lit1,
        Tok("RParen")>> }

AssignTexts(n) ==
    Texts(ExprAtoms \cup AssignOps \cup CompareOps \cup {Op("Plus")}, n)
        \cup { <<IdentX, Op(c), Lit1>> : c \in CompoundSymbols }
        \cup { <<IdentX, Op(c), Lit1, Op("Plus"), IdentX>> : c \in CompoundSymbols }
        \cup {VarModificationSource}
        \cup ParenComparisons

AssignInit ==
    /\ tokens \in { InFunction(e) : e \in AssignTexts(MaxAssignLen) }
    /\ parser = ParserNew
    /\ func_defs = <<>>
    /\ pstate = "parsing"
    /\ cursor0 = 0
    /\ LexIdle
    /\ CompilerIdle

AssignSpec == AssignInit /\ [][ParseNext]_vars

(* Statements: fn f ( ) { followed by any run of statements, newlines,    *)
(* closing braces and while headers.                                       *)

\* while x {
WhileHeader == <<Tok("While"), IdentX, Tok("LSquirly")>>

\* i64 x = 1
VarDecSource == <<TypeI64, IdentX, Op("Assign"), Lit1>>

StmtSegments ==
    { <<IdentX>>, VarDecSource, WhileHeader, <<Tok("Newline")>>,
      <<Tok("RSquirly")>> }

StmtTexts(n) ==
    { HeaderF \o <<Tok("LSquirly")>> \o Flatten(ss) :
          ss \in Texts(StmtSegments, n) }

StmtInit ==
    /\ tokens \in StmtTexts(MaxStmtSegs)
    /\ parser = ParserNew
    /\ func_defs = <<>>
    /\ pstate = "parsing"
    /\ cursor0 = 0
    /\ LexIdle
    /\ CompilerIdle

StmtSpec == StmtInit /\ [][ParseNext]_vars

(* Bodies with blank lines: fn f ( ) { followed by newlines, comments,     *)
(* docstrings, the statement x and closing braces.                         *)

BlankTokens ==
    { Tok("Newline"), Tok("Comment"), Tok("Docstring"), IdentX, Tok("RSquirly") }

BlankTexts(n) ==
    { HeaderF \o <<Tok("LSquirly")>> \o b : b \in Texts(BlankTokens, n) }

BlankInit ==
    /\ tokens \in BlankTexts(MaxBlankLen)
    /\ parser = ParserNew
    /\ func_defs = <<>>
    /\ pstate = "parsing"
    /\ cursor0 = 0
    /\ LexIdle
    /\ CompilerIdle

BlankSpec == BlankInit /\ [][ParseNext]_vars

(* Postfix chains: the expression of fn f ( ) { <expr> \n } is a run of   *)
(* names, argument lists, parentheses, commas, '[' and literals, or the   *)
(* input of the test function_call.                                        *)

IdentF == TokV("Identifier", "f")

CallSegments ==
    { <<IdentF>>, <<Tok("LParen"), Lit("1"), Tok("RParen")>>,
      <<Tok("LParen"), Lit("2"), Tok("RParen")>>, <<Tok("LParen")>>,
      <<Tok("RParen")>>, <<Tok("Comma")>>, <<Tok("LSquare")>>, <<Lit("10")>> }

\* print(f(1)(2), 10, 20) (tests::function_call)
FunctionCallSource ==
    <<TokV("Identifier", "print"), Tok("LParen"), IdentF, Tok("LParen"),
      Lit("1"), Tok("RParen"), Tok("LParen"), Lit("2"), Tok("RParen"),
      Tok("Comma"), Lit("10"), Tok("Comma"), Lit("20"), Tok("RParen")>>

CallTexts(n) ==
    { Flatten(ss) : ss \in Texts(CallSegments, n) } \cup {FunctionCallSource}

CallInit ==
    /\ tokens \in { InFunction(e) : e \in CallTexts(MaxCallSegs) }
    /\ parser = ParserNew
    /\ func_defs = <<>>
    /\ pstate = "parsing"
    /\ cursor0 = 0
    /\ LexIdle
    /\ CompilerIdle

CallSpec == CallInit /\ [][ParseNext]_vars

(* Return statements: fn f ( ) { followed by any run of ret, x, +, 5,      *)
(* newlines and closing braces.                                            *)

RetTokens ==
    { Tok("Ret"), IdentX, Op("Plus"), Lit("5"), Tok("Newline"), Tok("RSquirly") }

RetTexts(n) ==
    { HeaderF \o <<Tok("LSquirly")>> \o e : e \in Texts(RetTokens, n) }

RetInit ==
    /\ tokens \in RetTexts(MaxRetLen)
    /\ parser = ParserNew
    /\ func_defs = <<>>
    /\ pstate = "parsing"
    /\ cursor0 = 0
    /\ LexIdle
    /\ CompilerIdle

RetSpec == RetInit /\ [][ParseNext]_vars

----------------------------------------------------------------------------
(* The code generator (src/src/compiler/compiler.rs).  The LLVM module is  *)
(* the sequence of its functions; a function is its name, parameter count, *)
(* return type, linkage and the instructions of its entry block in the     *)
(* order they were built.  A value (LLVMValueRef) is [k, n]: the constant  *)
(* n, the n-th parameter, or the result of the n-th instruction of the     *)
(* function being generated.  The builder always stands at the end of the  *)
(* entry block of the last function of the module.  A panic is recorded in *)
(* err and ends every function on the call stack; what was built before    *)
(* the panic stays built.                                                   *)

ConstInt(n) == [k |-> "const", n |-> n]
Param(i) == [k |-> "param", n |-> i]
InstValue(i) == [k |-> "inst", n |-> i]

\* Option::None of ScopeManager::get_var and of an Option<Expr>
NoSlot == [k |-> "none", n |-> 0]
NoExpr == [e |-> "None"]

Inst(op, name, args) == [op |-> op, name |-> name, args |-> args]

\* a compile function's result: the compiler after it and the value it
\* returns
Result(c, v) == [c |-> c, v |-> v]

\* panic!(msg)
CPanic(c, msg) == Result([c EXCEPT !.err = msg], NoSlot)

\* the rest K of a compile function, unless the call panicked
CThen(r, K(_)) == IF r.c.err # "" THEN r ELSE K(r)

\* the panics of the code generator
Redefinition == "Cannot redefine function"
UnknownFunction == "Unknown function referenced"
IncorrectArguments == "Incorrect # arguments passed to function"
UndeclaredVariable == "Setting a variable that has not been declared"
UndefinedIdentifier == "Compiler error: undefined identifier"
NotImplemented == "not yet implemented"

\* LLVMBuild*: the instruction is appended to the block the builder stands
\* at; the value is the instruction
Build(c, inst) ==
    LET f == Len(c.module)
        insts == Append(c.module[f].insts, inst)
    IN Result([c EXCEPT !.module[f].insts = insts], InstValue(Len(insts)))

\* ScopeManager::enter_scope: push an empty frame
enter_scope(sm) == Append(sm, {})

\* ScopeManager::exit_scope: pop the innermost frame
exit_scope(sm) == SubSeq(sm, 1, Len(sm) - 1)

\* ScopeManager::set_var: bind the name in the innermost frame
set_var(sm, name, slot) ==
    [sm EXCEPT ![Len(sm)] =
        { b \in sm[Len(sm)] : b.name # name }
            \cup { [name |-> name, slot |-> slot] }]

\* ScopeManager::get_var: the innermost frame that binds the name wins
get_var(sm, name) ==
    LET binding(i) == { b \in sm[i] : b.name = name }
        frames == { i \in 1..Len(sm) : binding(i) # {} }
    IN IF frames = {} THEN NoSlot
       ELSE (CHOOSE b \in binding(CHOOSE i \in frames :
                                      \A j \in frames : j <= i) : TRUE).slot

\* Compiler::to_llvm_type
to_llvm_type(t) == IF t = "I64" THEN "i64" ELSE "void"

\* LLVMGetNamedFunction finding no function but those added before the last
LLVMGetNamedFunctionBeforeLast(module, name) ==
    IF \E i \in 1..(Len(module) - 1) : module[i].name = name
    THEN CHOOSE i \in 1..(Len(module) - 1) : module[i].name = name
    ELSE 0

\* LLVMGetNamedFunction: the index of the function in the module, 0 for null
LLVMGetNamedFunction(module, name) ==
    IF \E i \in 1..Len(module) : module[i].name = name
    THEN CHOOSE i \in 1..Len(module) : module[i].name = name
    ELSE 0

\* Compiler::create_entry_block_alloca: the temporary builder stands at the
\* end of the entry block too
create_entry_block_alloca(c, var_name, var_type) ==
    Build(c, Inst("alloca", var_name, <<>>))

\* Compiler::compile_identifier
compile_identifier(c, id) ==
    LET alloca_ref == get_var(c.scope_manager, id)
    IN IF alloca_ref = NoSlot THEN CPanic(c, UndefinedIdentifier)
       ELSE Build(c, Inst("load", id, <<alloca_ref>>))

\* Compiler::compile_i64_literal
compile_i64_literal(c, x) == Result(c, ConstInt(x))

\* the name compile_bin_expr gives the instruction of an operator
BinInstName(operator) ==
    CASE operator = "Add" -> "add"
      [] operator = "Subtract" -> "sub"
      [] operator = "Multiply" -> "mul"
      [] operator = "Divide" -> "div"
      [] operator = "NotEqualTo" -> "neq"
      [] operator = "EqualTo" -> "eq"
      [] operator = "LessThan" -> "lt"
      [] operator = "GreaterThan" -> "gt"
      [] operator = "LessOrEqualTo" -> "lte"
      [] operator = "GreaterOrEqualTo" -> "gte"

RECURSIVE compile_expr(_, _), compile_bin_expr(_, _), compile_call_expr(_, _),
          compile_assignment(_, _), compile_args(_, _, _)

\* Compiler::compile_bin_expr
compile_bin_expr(c, bin_expr) ==
    CThen(compile_expr(c, bin_expr.left), LAMBDA lhs :
    CThen(compile_expr(lhs.c, bin_expr.right), LAMBDA rhs :
        Build(rhs.c, Inst("binary", BinInstName(bin_expr.operator),
                          <<lhs.v, rhs.v>>))))

\* call_expr.args.iter().map(|expr| self.compile_expr(expr)).collect()
compile_args(c, args, arg_values) ==
    IF args = <<>> THEN Result(c, arg_values)
    ELSE CThen(compile_expr(c, Head(args)), LAMBDA a :
             compile_args(a.c, Tail(args), Append(arg_values, a.v)))

\* compile_call_expr lowering the arguments before it counts them
compile_call_expr_args_first(c, call_expr) ==
    LET func == LLVMGetNamedFunction(c.module, call_expr.function_name)
    IN IF func = 0 THEN CPanic(c, UnknownFunction)
       ELSE CThen(compile_args(c, call_expr.args, <<>>), LAMBDA a :
                IF c.module[func].num_params # Len(call_expr.args)
                THEN CPanic(a.c, IncorrectArguments)
                ELSE Build(a.c, Inst("call", call_expr.function_name, a.v)))

\* Compiler::compile_call_expr
compile_call_expr(c, call_expr) ==
    LET func == LLVMGetNamedFunction(c.module, call_expr.function_name)
    IN IF func = 0 THEN CPanic(c, UnknownFunction)
       ELSE IF c.module[func].num_params # Len(call_expr.args)
            THEN CPanic(c, IncorrectArguments)
            ELSE CThen(compile_args(c, call_expr.args, <<>>), LAMBDA a :
                     Build(a.c, Inst("call", call_expr.function_name, a.v)))

\* the store of compile_assignment
StoreTo(c, value, alloca) ==
    Result(Build(c, Inst("store", "", <<value, alloca>>)).c, value)

\* compile_assignment declaring the variable it does not find
compile_assignment_declaring(c, assign) ==
    CThen(compile_expr(c, assign.value), LAMBDA value :
        LET alloca == get_var(value.c.scope_manager, assign.name)
        IN IF alloca = NoSlot
           THEN CThen(create_entry_block_alloca(value.c, assign.name, "I64"),
                      LAMBDA a :
                          StoreTo([a.c EXCEPT !.scope_manager =
                                      set_var(@, assign.name, a.v)],
                                  value.v, a.v))
           ELSE StoreTo(value.c, value.v, alloca))

\* Compiler::compile_assignment
compile_assignment(c, assign) ==
    CThen(compile_expr(c, assign.value), LAMBDA value :
        LET alloca == get_var(value.c.scope_manager, assign.name)
        IN IF alloca = NoSlot THEN CPanic(value.c, UndeclaredVariable)
           ELSE StoreTo(value.c, value.v, alloca))

\* Compiler::compile_expr
compile_expr(c, expr) ==
    CASE expr.e = "Identifier" -> compile_identifier(c, expr.id)
      [] expr.e = "I64Literal" -> compile_i64_literal(c, expr.x)
      [] expr.e = "Binary" -> compile_bin_expr(c, expr)
      [] expr.e = "Call" -> compile_call_expr(c, expr)
      [] expr.e = "Assign" -> compile_assignment(c, expr)

\* Compiler::compile_ret_statement
compile_ret_statement(c, ret_value) ==
    IF ret_value = NoExpr THEN Build(c, Inst("ret void", "", <<>>))
    ELSE CThen(compile_expr(c, ret_value), LAMBDA value :
             Build(value.c, Inst("ret", "", <<value.v>>)))

\* the initializer of a declaration, stored to its slot
InitialValue(c, var_value, alloca) ==
    IF var_value = NoExpr THEN Result(c, NoSlot)
    ELSE CThen(compile_expr(c, var_value), LAMBDA value :
             Build(value.c, Inst("store", "", <<value.v, alloca>>)))

RECURSIVE compile_var_declarations(_, _)
\* compile_var_declarations calling set_var after the initializer is stored
compile_var_declarations_binding_last(c, var_declarations) ==
    IF var_declarations = <<>> THEN Result(c, NoSlot)
    ELSE CThen(create_entry_block_alloca(c, Head(var_declarations).var_name,
                                         Head(var_declarations).var_type),
               LAMBDA alloca :
         CThen(InitialValue(alloca.c, Head(var_declarations).var_value,
                            alloca.v),
               LAMBDA stored :
             compile_var_declarations(
                 [stored.c EXCEPT !.scope_manager =
                     set_var(@, Head(var_declarations).var_name, alloca.v)],
                 Tail(var_declarations))))

\* Compiler::compile_var_declarations: the name is bound before its
\* initializer is lowered
compile_var_declarations(c, var_declarations) ==
    IF var_declarations = <<>> THEN Result(c, NoSlot)
    ELSE CThen(create_entry_block_alloca(c, Head(var_declarations).var_name,
                                         Head(var_declarations).var_type),
               LAMBDA alloca :
         CThen(InitialValue([alloca.c EXCEPT !.scope_manager =
                                set_var(@, Head(var_declarations).var_name,
                                        alloca.v)],
                            Head(var_declarations).var_value, alloca.v),
               LAMBDA stored :
             compile_var_declarations(stored.c, Tail(var_declarations))))

\* Compiler::compile_while_loop: todo!()
compile_while_loop(c, while_loop) == CPanic(c, NotImplemented)

\* Compiler::compile_expr_statement
compile_expr_statement(c, expr) == compile_expr(c, expr)

\* Compiler::compile_statement
compile_statement(c, statement) ==
    CASE statement.s = "VarDeclarations" ->
             compile_var_declarations(c, statement.v)
      [] statement.s = "WhileLoop" -> compile_while_loop(c, statement)
      [] statement.s = "Expr" -> compile_expr_statement(c, statement.expr)
      [] statement.s = "Return" -> compile_ret_statement(c, statement.r)

\* compile_func_def without its check for a function of the same name
RedefinedNever(c, func_def) == FALSE

\* !LLVMGetNamedFunction(module, func_name).is_null() of compile_func_def
Redefined(c, func_def) == LLVMGetNamedFunction(c.module, func_def.name) # 0

\* LLVMAddFunction, LLVMSetLinkage and the entry block of compile_func_def
AddFunction(c, func_def) ==
    [c EXCEPT !.module = Append(@,
        [name |-> func_def.name,
         num_params |-> Len(func_def.params),
         return_type |-> to_llvm_type(func_def.return_type),
         linkage |-> IF func_def.is_public THEN "external" ELSE "internal",
         insts |-> <<>>])]

RECURSIVE BindParams(_, _, _)
\* the second loop over the parameters of compile_func_def: a slot for
\* each, the incoming value stored to it, the name bound to it
BindParams(c, params, i) ==
    IF i > Len(params) THEN c
    ELSE LET alloca == create_entry_block_alloca(c, params[i].param_name,
                                                 params[i].param_type)
             stored == Build(alloca.c, Inst("store", "", <<Param(i), alloca.v>>))
         IN BindParams([stored.c EXCEPT !.scope_manager =
                           set_var(@, params[i].param_name, alloca.v)],
                       params, i + 1)

\* compile_func_def up to the loop over the body
FuncDefEntry(c, func_def) ==
    IF Redefined(c, func_def) THEN CPanic(c, Redefinition).c
    ELSE BindParams([AddFunction(c, func_def) EXCEPT !.scope_manager =
                        enter_scope(@)],
                    func_def.params, 1)

\* the match on body.last() taken on body.first() instead
FirstIsReturn(body) == body # <<>> /\ body[1].s = "Return"

\* Some(Statement::Return(_)) of the match on func_def.body.last()
LastIsReturn(body) == body # <<>> /\ body[Len(body)].s = "Return"

\* compile_func_def after the loop over the body, without exit_scope
FuncDefExitKeepingFrame(c, func_def) ==
    IF LastIsReturn(func_def.body) THEN c
    ELSE compile_ret_statement(c, NoExpr).c

\* compile_func_def after the loop over the body
FuncDefExit(c, func_def) ==
    LET returned == IF LastIsReturn(func_def.body) THEN c
                    ELSE compile_ret_statement(c, NoExpr).c
    IN [returned EXCEPT !.scope_manager = exit_scope(@)]

\* LLVMVerifyFunction(func, LLVMPrintMessageAction) with a failure aborting
\* the compilation
LLVMVerifyFunctionChecked(c, failed) ==
    IF failed THEN CPanic(c, "Error verifying function").c ELSE c

\* LLVMVerifyFunction(func, LLVMPrintMessageAction) as the last statement of
\* compile_func_def: the backend prints its messages and returns whether
\* the function failed, and the value is dropped
LLVMVerifyFunction(c, failed) == c

\* the record of one call of LLVMVerifyFunction: the function, the depth of
\* the scope stack at the call, what the backend returned
VerifyCall(c, failed) ==
    [func |-> Len(c.module), depth |-> Len(c.scope_manager), failed |-> failed]

\* one dispose call of Drop on the log of disposed handles
Dispose(log, handle) == Append(log, handle)

\* Drop with the module disposed first
DropModuleFirst(log) ==
    Dispose(Dispose(Dispose(Dispose(Dispose(log, "module"), "pass_manager"),
                            "target_machine"), "builder"), "context")

\* Drop for Compiler: LLVMDisposePassManager, LLVMDisposeTargetMachine,
\* LLVMDisposeBuilder, LLVMDisposeModule, LLVMContextDispose
DropCompiler(log) ==
    Dispose(Dispose(Dispose(Dispose(Dispose(log, "pass_manager"),
                            "target_machine"), "builder"), "module"), "context")

\* Compiler::new
CompilerNew == [module |-> <<>>, scope_manager |-> <<>>, err |-> ""]

----------------------------------------------------------------------------
(* The code generator as a state machine: Compiler::new(), then            *)
(* compile(program).  compile_func_def takes one step to enter a function, *)
(* one step per statement of its body and one step to leave it.  The       *)
(* function definitions are drawn as compile reaches them; program is the  *)
(* part of the Program it has reached.                                     *)

\* the AST of crate::parser::ast the code generator matches on
IdentifierExpr(id) == [e |-> "Identifier", id |-> id]
LiteralExpr(x) == [e |-> "I64Literal", x |-> x]
BinaryExpr(left, operator, right) ==
    [e |-> "Binary", left |-> left, operator |-> operator, right |-> right]
Call(function_name, args) ==
    [e |-> "Call", function_name |-> function_name, args |-> args]
Assign(name, value) == [e |-> "Assign", name |-> name, value |-> value]
VarDeclaration(var_type, var_name, var_value) ==
    [var_name |-> var_name, var_type |-> var_type, var_value |-> var_value]
VarDeclarations(v) == [s |-> "VarDeclarations", v |-> v]
WhileLoop == [s |-> "WhileLoop"]
ExprStatement(expr) == [s |-> "Expr", expr |-> expr]
Return(r) == [s |-> "Return", r |-> r]
FuncParam(param_type, param_name) ==
    [param_type |-> param_type, param_name |-> param_name]

\* the statements function bodies are made of
Statements ==
    { VarDeclarations(<<VarDeclaration("I64", "x", LiteralExpr(1))>>),
      VarDeclarations(<<VarDeclaration("I64", "x", IdentifierExpr("x"))>>),
      ExprStatement(Call("f", <<>>)),
      ExprStatement(Call("f", <<IdentifierExpr("x")>>)),
      ExprStatement(Call("g", <<IdentifierExpr("x"), LiteralExpr(1)>>)),
      ExprStatement(Call("g", <<IdentifierExpr("a"), IdentifierExpr("b")>>)),
      ExprStatement(Call("g", <<IdentifierExpr("x")>>)),
      ExprStatement(Call("h", <<IdentifierExpr("x")>>)),
      ExprStatement(Assign("x", LiteralExpr(2))),
      ExprStatement(Assign("a", BinaryExpr(IdentifierExpr("a"), "Add",
                                           LiteralExpr(1)))),
      Return(NoExpr),
      Return(LiteralExpr(1)),
      WhileLoop }

\* fn f() and fn g(i64 a, i64 b), each with and without a return type
Signatures ==
    { [name |-> "f", params |-> <<>>, is_public |-> TRUE],
      [name |-> "g",
       params |-> <<FuncParam("I64", "a"), FuncParam("I64", "b")>>,
       is_public |-> FALSE] }

\* the function definitions: a signature and a body of at most MaxBody
\* statements
FuncDefs ==
    { [name |-> sig.name, params |-> sig.params, return_type |-> t,
       body |-> body, is_public |-> sig.is_public] :
          sig \in Signatures, t \in {"Void", "I64"},
          body \in Texts(Statements, MaxBody) }

\* the func_def compile_func_def was last called on
CurFuncDef == program[Len(program)]

\* the step ends in the compiler c: a panic ends the compilation
Step(c, on) ==
    /\ compiler' = c
    /\ cstate' = IF c.err # "" THEN "panicked" ELSE on

\* history: did compile_func_def build a return after the body
Synthesized(c) ==
    implicit_rets' =
        IF Len(c.module[Len(c.module)].insts)
               > Len(compiler.module[Len(compiler.module)].insts)
        THEN implicit_rets \cup {Len(c.module)}
        ELSE implicit_rets

\* compile: the next func_def of the Program; compile_func_def up to its
\* loop over the body
BeginFuncDef ==
    /\ cstate = "compile"
    /\ Len(program) < MaxFuncs
    /\ \E func_def \in FuncDefs :
          /\ program' = Append(program, func_def)
          /\ Step(FuncDefEntry(compiler, func_def), "body")
    /\ si' = 0
    /\ UNCHANGED <<implicit_rets, verified, released>>
    /\ UNCHANGED <<lexVars, parseVars>>

\* one iteration of the loop over the body of compile_func_def
CompileStatement ==
    /\ cstate = "body"
    /\ si < Len(CurFuncDef.body)
    /\ Step(compile_statement(compiler, CurFuncDef.body[si + 1]).c, "body")
    /\ si' = si + 1
    /\ UNCHANGED <<program, implicit_rets, verified, released>>
    /\ UNCHANGED <<lexVars, parseVars>>

\* compile_func_def after the loop over the body: the return, exit_scope,
\* and, unless the return panicked, LLVMVerifyFunction, whose answer is
\* the backend's
EndFuncDef ==
    /\ cstate = "body"
    /\ si = Len(CurFuncDef.body)
    /\ LET exited == FuncDefExit(compiler, CurFuncDef)
       IN IF exited.err # ""
          THEN /\ Step(exited, "compile")
               /\ UNCHANGED verified
          ELSE \E failed \in BOOLEAN :
                  /\ Step(LLVMVerifyFunction(exited, failed), "compile")
                  /\ verified' = Append(verified, VerifyCall(exited, failed))
    /\ Synthesized(FuncDefExit(compiler, CurFuncDef))
    /\ UNCHANGED <<program, si, released>>
    /\ UNCHANGED <<lexVars, parseVars>>

\* compile returns: the Program has no more function definitions
CompileReturns ==
    /\ cstate = "compile"
    /\ cstate' = "returned"
    /\ UNCHANGED <<program, compiler, si, implicit_rets, verified, released>>
    /\ UNCHANGED <<lexVars, parseVars>>

\* the Compiler is discarded, once: after compile returned, or as its panic
\* unwinds
Drop ==
    /\ cstate \in {"returned", "panicked"}
    /\ released = <<>>
    /\ released' = DropCompiler(released)
    /\ UNCHANGED <<program, compiler, cstate, si, implicit_rets, verified>>
    /\ UNCHANGED <<lexVars, parseVars>>

CompileInit ==
    /\ program = <<>>
    /\ compiler = CompilerNew
    /\ cstate = "compile"
    /\ si = 0
    /\ implicit_rets = {}
    /\ verified = <<>>
    /\ released = <<>>
    /\ LexIdle
    /\ ParserIdle

CompileNext ==
    \/ BeginFuncDef
    \/ CompileStatement
    \/ EndFuncDef
    \/ CompileReturns
    \/ Drop

CompileSpec == CompileInit /\ [][CompileNext]_vars

----------------------------------------------------------------------------
(* Properties of the tokenizer.                                            *)

\* u is v without its first k characters, for some k >= 1
ProperSuffix(u, v) ==
    Len(u) < Len(v) /\ u = SubSeq(v, Len(v) - Len(u) + 1, Len(v))

\* empty, or only ASCII whitespace other than the newline
Blank(u) == \A k \in 1..Len(u) : is_ascii_whitespace(u[k]) /\ u[k] # NEWLINE

\* the step that led to this state yielded a token or an error
Yielded == item.kind \in {"ok", "err"}

\* the tokenizer has stopped: next returned None, or panicked
LexStopped == item.kind \in {"none", "panic"}

\* C1: every step that yields a token or an error leaves a strictly shorter
\* remaining input (a proper suffix of the input it started on), a step
\* yields nothing exactly when the remaining input is empty or only
\* non-newline ASCII whitespace, and repeated stepping stops: a text of n
\* characters takes at most n + 1 calls of next.
C1_TokenizerTerminates ==
    /\ Yielded => ProperSuffix(unparsed, before) /\ ByteLen(unparsed) < ByteLen(before)
    /\ item.kind # "start" => (item.kind = "none" <=> Blank(before))
    /\ calls <= Len(source) + 1
    /\ calls = Len(source) + 1 => LexStopped

\* C1 witness: a step skipped whitespace, yielded an error and left text
C1_Witness ==
    /\ item.kind = "err"
    /\ unparsed # <<>>
    /\ before # <<>> /\ is_ascii_whitespace(before[1])

\* the text next works on: `before` without the whitespace it skips
SkipWs(u) ==
    LET k == FindPos(u, LAMBDA c : ~is_ascii_whitespace(c) \/ c = NEWLINE)
    IN IF k = 0 THEN <<>> ELSE SubSeq(u, k, Len(u))

RECURSIVE LiteralEnd(_, _)
\* where the literal that w opens ends, scanning from position k: the
\* position of the first quote or raw newline that is not the character of
\* an escape (a backslash and the character after it); 0 when the text ends
\* before either
LiteralEnd(w, k) ==
    IF k > Len(w) THEN 0
    ELSE IF w[k] = QUOTE \/ w[k] = NEWLINE THEN k
    ELSE IF w[k] = BACKSLASH THEN LiteralEnd(w, k + 2)
    ELSE LiteralEnd(w, k + 1)

\* the last step started on a string literal
OnStrLiteral == item.kind # "start" /\ SkipWs(before) # <<>> /\ SkipWs(before)[1] = QUOTE

\* C9: on a literal with a raw newline before its closing quote the step
\* yields UnterminatedStrLiteral and leaves the text from the newline on
\* (so the next step yields Newline); on a literal that the end of input
\* cuts off it yields UnterminatedStrLiteral and leaves nothing.
C9_UnterminatedResync ==
    OnStrLiteral =>
        LET w == SkipWs(before)
            p == LiteralEnd(w, 2)
        IN /\ (p # 0 /\ w[p] = NEWLINE) =>
                 /\ item.kind = "err" /\ item.t = "UnterminatedStrLiteral"
                 /\ unparsed = SubSeq(w, p, Len(w))
                 /\ next(unparsed).item = Ok("Punctuation", "Newline")
           /\ p = 0 =>
                 /\ item.kind = "err" /\ item.t = "UnterminatedStrLiteral"
                 /\ unparsed = <<>>

\* C10: after a step on a literal that has a closing quote, the remaining
\* input is exactly the text that follows the closing quote.
C10_RestAfterClosingQuote ==
    OnStrLiteral =>
        LET w == SkipWs(before)
            p == LiteralEnd(w, 2)
        IN (p # 0 /\ w[p] = QUOTE) =>
              /\ Yielded
              /\ unparsed = SubSeq(w, p + 1, Len(w))

\* the literal the last step started on has only one-byte characters up to
\* its end
AsciiLiteral ==
    LET w == SkipWs(before)
        p == LiteralEnd(w, 2)
    IN \A k \in 1..(IF p = 0 THEN Len(w) ELSE p) : len_utf8(w[k]) = 1

\* C9 and C10 do hold of literals of one-byte characters
C9_C10_Ascii ==
    AsciiLiteral => C9_UnterminatedResync /\ C10_RestAfterClosingQuote

RECURSIVE InvalidEscape(_, _)
\* the literal that w opens has, scanning from position k and before its
\* end, a \u escape with 4 hex digits (or a \x escape with 2) whose value is
\* not the scalar value of a character: a surrogate, or above U+10FFFF
InvalidEscape(w, k) ==
    IF k > Len(w) \/ w[k] = QUOTE \/ w[k] = NEWLINE THEN FALSE
    ELSE IF w[k] # BACKSLASH THEN InvalidEscape(w, k + 1)
    ELSE IF k + 1 > Len(w) THEN FALSE
    ELSE IF w[k + 1] \notin {LOWER_U, LOWER_X} THEN InvalidEscape(w, k + 2)
    ELSE LET n == IF w[k + 1] = LOWER_U THEN 4 ELSE 2
             hex == IF k + 1 + n <= Len(w) THEN SubSeq(w, k + 2, k + 1 + n)
                    ELSE <<>>
         IN IF Len(hex) = n /\ \A j \in 1..n : is_ascii_hexdigit(hex[j])
            THEN \/ HexValue(hex) \in 55296..57343
                 \/ HexValue(hex) > 1114111
                 \/ InvalidEscape(w, k + 2 + n)
            ELSE InvalidEscape(w, k + 2)

\* C11: a step on a string literal that has a complete \u or \x escape
\* denoting no valid character (a surrogate such as D800) does not abort the
\* tokenizer: it yields an error for the literal and leaves a shorter text.
C11_InvalidEscapeInBand ==
    (OnStrLiteral /\ InvalidEscape(SkipWs(before), 2)) =>
        /\ item.kind = "err"
        /\ ProperSuffix(unparsed, before)

\* the number of ASCII hex digits w has from position k on, at most n
HexRun(w, k, n) ==
    IF \E j \in 0..(n - 1) : k + j > Len(w) \/ ~is_ascii_hexdigit(w[k + j])
    THEN CHOOSE j \in 0..(n - 1) :
             /\ k + j > Len(w) \/ ~is_ascii_hexdigit(w[k + j])
             /\ \A i \in 0..(j - 1) : is_ascii_hexdigit(w[k + i])
    ELSE n

RECURSIVE EscapeErrors(_, _)
\* the errors of the escapes of the literal that w opens, scanning from
\* position k to its end: IncompleteEscape for a \u with fewer than 4 hex
\* digits or a \x with fewer than 2, UnknownEscape(c) for a backslash and a
\* character c outside n, r, t, \, 0, ", u, x
EscapeErrors(w, k) ==
    IF k > Len(w) \/ w[k] = QUOTE \/ w[k] = NEWLINE THEN {}
    ELSE IF w[k] # BACKSLASH THEN EscapeErrors(w, k + 1)
    ELSE IF k + 1 > Len(w) THEN {}
    ELSE IF w[k + 1] \in {Ch("n"), Ch("r"), Ch("t"), Ch("\\"), Ch("0"), Ch("\"")}
         THEN EscapeErrors(w, k + 2)
    ELSE IF w[k + 1] \in {Ch("u"), Ch("x")}
         THEN LET n == IF w[k + 1] = Ch("u") THEN 4 ELSE 2
                  h == HexRun(w, k + 2, n)
              IN IF h = n THEN EscapeErrors(w, k + 2 + n)
                 ELSE {Err("IncompleteEscape", <<>>)}
                          \cup EscapeErrors(w, k + 2 + h)
    ELSE {Err("UnknownEscape", w[k + 1])} \cup EscapeErrors(w, k + 2)

\* the last step started on a literal that has a closing quote and an
\* incomplete or unknown escape before it
OnBadEscape ==
    /\ OnStrLiteral
    /\ LiteralEnd(SkipWs(before), 2) # 0
    /\ SkipWs(before)[LiteralEnd(SkipWs(before), 2)] = QUOTE
    /\ EscapeErrors(SkipWs(before), 2) # {}

\* C14: a step on a literal that has a closing quote and an incomplete \u or
\* \x escape or an unknown escape yields one error, the IncompleteEscape or
\* UnknownEscape(c) of such an escape of the literal and no Str token, and
\* leaves exactly the text after the closing quote.
C14_BadEscapeOneError ==
    OnBadEscape =>
        /\ item \in EscapeErrors(SkipWs(before), 2)
        /\ unparsed = SubSeq(SkipWs(before), LiteralEnd(SkipWs(before), 2) + 1,
                             Len(SkipWs(before)))

\* C14 does hold of literals of one-byte characters whose complete escapes
\* all denote characters
C14_Ascii ==
    (AsciiLiteral /\ ~InvalidEscape(SkipWs(before), 2)) => C14_BadEscapeOneError

\* the number of '/' the text starts with
SlashRun(w) ==
    IF \A k \in 1..Len(w) : w[k] = Ch("/") THEN Len(w)
    ELSE (CHOOSE k \in 1..Len(w) :
              w[k] # Ch("/") /\ \A j \in 1..(k - 1) : w[j] = Ch("/")) - 1

\* the position of the first newline of the text, Len(w) + 1 when none
LineEnd(w) ==
    IF \A k \in 1..Len(w) : w[k] # Ch("\n") THEN Len(w) + 1
    ELSE CHOOSE k \in 1..Len(w) :
             w[k] = Ch("\n") /\ \A j \in 1..(k - 1) : w[j] # Ch("\n")

\* the last step started on a '/'
OnSlash ==
    item.kind # "start" /\ SkipWs(before) # <<>> /\ SkipWs(before)[1] = Ch("/")

\* C15: a step on a run of two or more '/' yields one Comment, Docstring for
\* exactly 3 slashes and Regular for 2 or for 4 and more, whose body is the
\* rest of the line after the slashes, trimmed; it leaves the text from the
\* newline on (nothing when there is none) and the next step yields Newline;
\* a step on a single '/' yields the Slash punctuation and consumes it.
C15_Comments ==
    OnSlash =>
        LET w == SkipWs(before)
            n == SlashRun(w)
            e == LineEnd(w)
        IN IF n >= 2
           THEN /\ item = Ok(IF n = 3 THEN "Docstring" ELSE "Comment",
                             trim(SubSeq(w, n + 1, e - 1)))
                /\ unparsed = SubSeq(w, e, Len(w))
                /\ e <= Len(w) => next(unparsed).item = Ok("Punctuation", "Newline")
           ELSE /\ item = Ok("Punctuation", "Slash")
                /\ unparsed = Tail(w)

\* C15 witness: a step on four slashes and a body yielded a Regular comment
\* and left the newline
C15_Witness ==
    /\ OnSlash
    /\ SlashRun(SkipWs(before)) = 4
    /\ item = Ok("Comment", <<Ch("a")>>)
    /\ unparsed = <<Ch("\n")>>

\* no rule of the tokenizer matches the character: it is not whitespace,
\* not a punctuation character, not a quote, a digit, a letter or '_'
NoRule(c) ==
    /\ ~is_ascii_whitespace(c)
    /\ Punctuation(c) = ""
    /\ c # Ch("\"")
    /\ c \notin 48..57
    /\ ~is_alphabetic(c)
    /\ c # Ch("_")

\* the last step started on a character that no rule matches
OnUnknownChar ==
    item.kind # "start" /\ SkipWs(before) # <<>> /\ NoRule(SkipWs(before)[1])

\* C16: a step on a character c that no rule matches yields UnknownChar(c)
\* and consumes exactly c, all the bytes of its encoding: the remaining
\* input is the text after c, where the next step starts.
C16_UnknownChar ==
    OnUnknownChar =>
        /\ item = Err("UnknownChar", SkipWs(before)[1])
        /\ unparsed = Tail(SkipWs(before))
        /\ ByteLen(unparsed) = ByteLen(SkipWs(before)) - len_utf8(SkipWs(before)[1])

\* C16 witness: a step on a character of several bytes that no rule matches
\* yielded UnknownChar and left text that the next step yields a token from
C16_Witness ==
    /\ OnUnknownChar
    /\ len_utf8(SkipWs(before)[1]) >= 3
    /\ item.t = "UnknownChar"
    /\ unparsed # <<>>
    /\ next(unparsed).item.kind = "ok"

\* the decimal digits of the value of a text of ASCII digits
DigitsOf(w) == StripZeros([k \in 1..Len(w) |-> w[k] - 48])

\* the text is a non-negative integer in decimal
IsDecimal(w) == w # <<>> /\ \A k \in 1..Len(w) : w[k] \in 48..57

\* C12: the first step on the decimal text of a non-negative integer n
\* yields the Int literal of value n and consumes the whole text (the next
\* step yields nothing), also when n exceeds the width of the literal.
C12_IntOfEveryDecimal ==
    (IsDecimal(source) /\ calls = 1) =>
        /\ item = Ok("Int", DigitsOf(source))
        /\ unparsed = <<>>

RECURSIVE SpanEnd(_, _)
\* the last position of the numeric span of w, scanning from position k:
\* digits, '.', 'E', 'e', and a sign directly after 'E' or 'e'
SpanEnd(w, k) ==
    IF k > Len(w) THEN Len(w)
    ELSE IF \/ w[k] \in 48..57
            \/ w[k] \in {Ch("."), Ch("E"), Ch("e")}
            \/ w[k] \in {Ch("+"), Ch("-")} /\ w[k - 1] \in {Ch("E"), Ch("e")}
         THEN SpanEnd(w, k + 1)
         ELSE k - 1

\* the last step started on a digit
OnNumericLiteral ==
    item.kind # "start" /\ SkipWs(before) # <<>> /\ SkipWs(before)[1] \in 48..57

\* C13: a step on a numeric literal that yields consumes exactly the span:
\* it yields Int when the span has no '.', 'E' or 'e', and otherwise Float or
\* FloatParsing(span), and leaves the text after the span; the test's
\* 1.2312E+-9999 gives FloatParsing("1.2312E+"), Dash, Int(9999).
C13_NumericSpan ==
    /\ (OnNumericLiteral /\ Yielded) =>
          LET w == SkipWs(before)
              span == SubSeq(w, 1, SpanEnd(w, 2))
          IN /\ unparsed = SubSeq(w, Len(span) + 1, Len(w))
             /\ IF \A k \in 1..Len(span) : span[k] \in 48..57
                THEN item = Ok("Int", DigitsOf(span))
                ELSE item \in {Ok("Float", span), Err("FloatParsing", span)}
    /\ (OnNumericLiteral /\ ~Yielded) =>
          /\ IsDecimal(SkipWs(before))
          /\ ~DigitsLeq(DigitsOf(SkipWs(before)), I64MaxDigits)
    /\ source = FloatWithEPmSource =>
          /\ calls = 1 => item = Err("FloatParsing", S(<<"1", ".", "2", "3", "1", "2", "E", "+">>))
          /\ calls = 2 => item = Ok("Punctuation", "Dash")
          /\ calls = 3 => item = Ok("Int", <<9, 9, 9, 9>>) /\ unparsed = <<>>

\* C13 witness: the step on 1.2312E+-9999 yielded FloatParsing("1.2312E+")
\* and left -9999
C13_Witness ==
    /\ before = FloatWithEPmSource
    /\ item = Err("FloatParsing", S(<<"1", ".", "2", "3", "1", "2", "E", "+">>))
    /\ unparsed = S(<<"-", "9", "9", "9", "9">>)

----------------------------------------------------------------------------
(* Properties of the parser.                                               *)

\* C2: parse_program ends in exactly one of two ways, a Program with every
\* token consumed or skipped, or a panic with no Program; the cursor never
\* moves backwards, every loop iteration moves it forward, and so the number
\* of iterations is bounded by the number of tokens.
C2_ParseProgramTerminates ==
    /\ pstate \in {"parsing", "returned", "panicked"}
    /\ pstate = "returned" => parser.err = "" /\ parser.cursor = Len(tokens)
    /\ pstate = "panicked" <=> parser.err # ""
    /\ pstate = "panicked" => func_defs = <<>>
    /\ parser.cursor >= cursor0
    /\ parser.adv
    /\ (pstate = "parsing" /\ func_defs # <<>>) => parser.cursor > cursor0
    /\ Len(func_defs) <= parser.cursor
    /\ pstate # "panicked" => parser.cursor <= Len(tokens)

\* C2 witness: a Program of two functions was returned
C2_Witness == pstate = "returned" /\ Len(func_defs) = 2

\* the expression between fn f ( ) { and \n }
ExprOf(ts) == SubSeq(ts, Len(HeaderF) + 2, Len(ts) - 2)

\* the nesting depth of parentheses in front of position k
Depth(e, k) ==
    Cardinality({j \in 1..(k - 1) : e[j].t = "LParen"})
        - Cardinality({j \in 1..(k - 1) : e[j].t = "RParen"})

\* the positions of the operators of `ops` outside all parentheses
TopLevel(e, ops) ==
    {k \in 1..Len(e) : e[k].t = "OperatorSymbol" /\ e[k].v \in ops
                       /\ Depth(e, k) = 0}

Max(s) == CHOOSE k \in s : \A j \in s : j <= k

Bad == [e |-> "Bad"]

\* the operator of the tree for an operator token
TreeOperator(v) ==
    CASE v = "Plus" -> "Add" [] v = "Minus" -> "Subtract"
      [] v = "Asterisk" -> "Multiply" [] v = "Slash" -> "Divide"

\* the tree with sub-trees l and r, Bad when either is
Node(l, v, r) ==
    IF l = Bad \/ r = Bad THEN Bad
    ELSE [e |-> "BinExpr", left |-> l, operator |-> TreeOperator(v), right |-> r]

RECURSIVE Tree(_)
\* the tree of an expression: split at the LAST + or - outside parentheses
\* (left-associative, lowest tier), else at the last * or /, else it is an
\* atom or a parenthesized expression; Bad when it is none of these
Tree(e) ==
    LET add == TopLevel(e, {"Plus", "Minus"})
        mul == TopLevel(e, {"Asterisk", "Slash"})
        Split(k) == Node(Tree(SubSeq(e, 1, k - 1)), e[k].v,
                         Tree(SubSeq(e, k + 1, Len(e))))
    IN CASE add # {} -> Split(Max(add))
         [] add = {} /\ mul # {} -> Split(Max(mul))
         [] add = {} /\ mul = {} /\ Len(e) = 1 /\ e[1].t = "Identifier" ->
              [e |-> "Identifier", id |-> e[1].v]
         [] add = {} /\ mul = {} /\ Len(e) = 1 /\ e[1].t = "I64Literal" ->
              [e |-> "I64Literal", n |-> e[1].v]
         [] add = {} /\ mul = {} /\ Len(e) >= 3 /\ e[1].t = "LParen"
                /\ e[Len(e)].t = "RParen" -> Tree(SubSeq(e, 2, Len(e) - 1))
         [] OTHER -> Bad

I64(n) == [e |-> "I64Literal", n |-> n]

\* ((10 + ((3*8)/4)) - 13) + 5, the tree tests::order_of_operations expects
OrderOfOperationsTree ==
    BinExpr(BinExpr(BinExpr(I64("10"), "Add",
                            BinExpr(BinExpr(I64("3"), "Multiply", I64("8")),
                                    "Divide", I64("4"))),
                    "Subtract", I64("13")),
            "Add", I64("5"))

\* the first call of parse_func_def has returned or panicked
FirstParsed == parser.cursor > 0

\* C3: an expression of atoms, + - * / and parenthesized sub-expressions
\* parses, without a panic, to the tree in which * and / bind tighter than
\* + and -, operators of one tier associate to the left and a parenthesized
\* sub-expression is one operand.
C3_Precedence ==
    FirstParsed =>
        /\ Tree(ExprOf(tokens)) # Bad =>
              /\ pstate # "panicked"
              /\ func_defs[1].body =
                    <<[s |-> "ExprStatement", expr |-> Tree(ExprOf(tokens))]>>
        /\ ExprOf(tokens) = OrderOfOperationsSource =>
              /\ pstate # "panicked"
              /\ func_defs[1].body[1].expr = OrderOfOperationsTree

\* C3 witness: 10 + 3 * 8 / 4 - 13 + 5 was parsed to the tree of the test
C3_Witness ==
    /\ pstate = "returned"
    /\ ExprOf(tokens) = OrderOfOperationsSource
    /\ func_defs[1].body[1].expr = OrderOfOperationsTree

\* a parenthesized sum was parsed as one operand of a product
C3_ParenWitness ==
    /\ pstate = "returned"
    /\ LET x == func_defs[1].body[1].expr
       IN /\ x.e = "BinExpr" /\ x.operator = "Multiply"
          /\ x.right.e = "BinExpr" /\ x.right.operator = "Add"

Min(s) == CHOOSE k \in s : \A j \in s : k <= j

\* a comparison followed by a further comparison operator
Chained == [e |-> "Chained"]

\* the tree with sub-trees l and r under the operator of the symbol v; the
\* left operand is parsed first, so what is wrong with it comes first
OpNode(l, v, r) ==
    IF l \in {Bad, Chained} THEN l
    ELSE IF r \in {Bad, Chained} THEN r
    ELSE [e |-> "BinExpr", left |-> l,
          operator |-> IF v \in {"Plus", "Minus", "Asterisk", "Slash"}
                       THEN TreeOperator(v) ELSE v,
          right |-> r]

RECURSIVE ExprTree(_)
\* the tree of a full expression: split at the FIRST assignment operator
\* outside parentheses (right-associative, lowest tier); else, with one
\* comparison operator outside parentheses, split there; with more, and
\* well-formed operands around the first, Chained; else as Tree, a
\* parenthesized part being a full expression again
ExprTree(e) ==
    LET asg == TopLevel(e, ASSIGNMENT_SYMBOLS)
        cmp == TopLevel(e, COMPARISON_SYMBOLS)
        add == TopLevel(e, {"Plus", "Minus"})
        mul == TopLevel(e, {"Asterisk", "Slash"})
        Split(k) == OpNode(ExprTree(SubSeq(e, 1, k - 1)), e[k].v,
                           ExprTree(SubSeq(e, k + 1, Len(e))))
        Second(k) == Min(cmp \ {k})
        Chain(k) ==
            IF ExprTree(SubSeq(e, 1, k - 1)) = Bad
                   \/ ExprTree(SubSeq(e, k + 1, Second(k) - 1)) = Bad
            THEN Bad ELSE Chained
    IN CASE asg # {} -> Split(Min(asg))
         [] asg = {} /\ Cardinality(cmp) = 1 -> Split(Min(cmp))
         [] asg = {} /\ Cardinality(cmp) > 1 -> Chain(Min(cmp))
         [] asg = {} /\ cmp = {} /\ add # {} -> Split(Max(add))
         [] asg = {} /\ cmp = {} /\ add = {} /\ mul # {} -> Split(Max(mul))
         [] asg = {} /\ cmp = {} /\ add = {} /\ mul = {} /\ Len(e) = 1
                /\ e[1].t = "Identifier" -> [e |-> "Identifier", id |-> e[1].v]
         [] asg = {} /\ cmp = {} /\ add = {} /\ mul = {} /\ Len(e) = 1
                /\ e[1].t = "I64Literal" -> [e |-> "I64Literal", n |-> e[1].v]
         [] asg = {} /\ cmp = {} /\ add = {} /\ mul = {} /\ Len(e) >= 3
                /\ e[1].t = "LParen" /\ e[Len(e)].t = "RParen" ->
              ExprTree(SubSeq(e, 2, Len(e) - 1))
         [] OTHER -> Bad

\* the expression has an assignment operator outside parentheses
HasAssignment(e) == TopLevel(e, ASSIGNMENT_SYMBOLS) # {}

\* num = (a = 10), the tree tests::var_modification expects
VarModificationTree ==
    BinExpr([e |-> "Identifier", id |-> "num"], "Assign",
            BinExpr([e |-> "Identifier", id |-> "a"], "Assign", I64("10")))

\* C17: an expression with assignment operators parses to the tree whose
\* root is the FIRST assignment operator, its left operand the expression
\* before it and its right operand the whole rest, parsed as an assignment
\* expression again: a = b = e is a = (b = e), and comparison and arithmetic
\* operators bind tighter on both sides; num = a = 10 gives the test's tree.
C17_AssignmentRightAssociative ==
    FirstParsed =>
        /\ (HasAssignment(ExprOf(tokens))
               /\ ExprTree(ExprOf(tokens)) \notin {Bad, Chained}) =>
              /\ pstate # "panicked"
              /\ func_defs[1].body =
                    <<[s |-> "ExprStatement", expr |-> ExprTree(ExprOf(tokens))]>>
        /\ ExprOf(tokens) = VarModificationSource =>
              /\ pstate # "panicked"
              /\ func_defs[1].body[1].expr = VarModificationTree

\* C17 witness: num = a = 10 was parsed to the tree of the test
C17_Witness ==
    /\ pstate = "returned"
    /\ ExprOf(tokens) = VarModificationSource
    /\ func_defs[1].body[1].expr = VarModificationTree

\* an assignment with a comparison as its whole right operand was parsed
C17_LowestWitness ==
    /\ pstate = "returned"
    /\ LET x == func_defs[1].body[1].expr
       IN /\ x.e = "BinExpr" /\ x.operator = "Assign"
          /\ x.right.e = "BinExpr" /\ x.right.operator = "LessThan"

\* the arithmetic operator of a compound assignment symbol
ArithmeticOf(v) ==
    CASE v = "PlusEq" -> "Add" [] v = "MinusEq" -> "Subtract"
      [] v = "TimesEq" -> "Multiply" [] v = "DivideEq" -> "Divide"

\* Assign(name, Binary(Identifier(name), op, value))
Desugared(name, v, value) ==
    [e |-> "Assign", name |-> name,
     value |-> BinExpr([e |-> "Identifier", id |-> name], ArithmeticOf(v), value)]

\* the expression is 'name op value': an identifier, a compound assignment
\* operator and a well-formed value without assignment operators
IsCompound(e) ==
    /\ Len(e) >= 3
    /\ e[1].t = "Identifier"
    /\ IsOperator(e[2], CompoundSymbols)
    /\ ~HasAssignment(SubSeq(e, 3, Len(e)))
    /\ ExprTree(SubSeq(e, 3, Len(e))) \notin {Bad, Chained}

\* C18: 'name op value' with op one of += -= *= /= parses, without a panic,
\* to Assign(name, Binary(Identifier(name), arithmetic-op, value)).
C18_CompoundDesugared ==
    (FirstParsed /\ IsCompound(ExprOf(tokens))) =>
        /\ pstate # "panicked"
        /\ func_defs[1].body[1].expr =
              Desugared(ExprOf(tokens)[1].v, ExprOf(tokens)[2].v,
                        ExprTree(SubSeq(ExprOf(tokens), 3, Len(ExprOf(tokens)))))

\* what the parser does build of 'name op value': the binary node of the
\* operator the symbol converts to, over the name and the value
C18_CompoundAsBinExpr ==
    (FirstParsed /\ IsCompound(ExprOf(tokens))) =>
        /\ pstate # "panicked"
        /\ func_defs[1].body[1].expr.e = "BinExpr"
        /\ func_defs[1].body[1].expr.left =
              [e |-> "Identifier", id |-> ExprOf(tokens)[1].v]
        /\ func_defs[1].body[1].expr.right =
              ExprTree(SubSeq(ExprOf(tokens), 3, Len(ExprOf(tokens))))

\* the tree is a comparison node
IsComparison(t) == t.e = "BinExpr" /\ t.operator \in COMPARISON_SYMBOLS

RECURSIVE NoComparisonUnderComparison(_)
\* no comparison node of the tree has a comparison node as an operand
NoComparisonUnderComparison(t) ==
    IF t.e # "BinExpr" THEN TRUE
    ELSE /\ IsComparison(t) => ~IsComparison(t.left) /\ ~IsComparison(t.right)
         /\ NoComparisonUnderComparison(t.left)
         /\ NoComparisonUnderComparison(t.right)

\* the expression has no parentheses
Unparenthesized(e) == \A k \in 1..Len(e) : e[k].t \notin {"LParen", "RParen"}

CannotBeChained == "Comparison operators cannot be chained"

\* C19: when 'left cmp right' has been parsed at the comparison tier and the
\* next token is a comparison operator again, the parse panics with
\* "Comparison operators cannot be chained", and with that message only
\* then; an expression with one comparison per operand parses to its tree,
\* and the tree of an expression without parentheses never has a comparison
\* as an operand of a comparison.
C19_ComparisonNotChained ==
    FirstParsed =>
        /\ ExprTree(ExprOf(tokens)) = Chained <=>
              (pstate = "panicked" /\ parser.err = CannotBeChained)
        /\ ExprTree(ExprOf(tokens)) \notin {Bad, Chained} =>
              /\ pstate # "panicked"
              /\ func_defs[1].body[1].expr = ExprTree(ExprOf(tokens))
        /\ (pstate # "panicked" /\ Unparenthesized(ExprOf(tokens))) =>
              NoComparisonUnderComparison(func_defs[1].body[1].expr)

\* C19 witness: x < 1 and a further comparison operator were given and the
\* parse panicked with the chaining message
C19_Witness ==
    /\ pstate = "panicked"
    /\ parser.err = CannotBeChained
    /\ SubSeq(ExprOf(tokens), 1, 4) = <<IdentX, Op("LessThan"), Lit1, Op("EqualTo")>>

\* a parenthesized comparison was parsed as an operand of a comparison
C19_ParenWitness ==
    /\ pstate = "returned"
    /\ IsComparison(func_defs[1].body[1].expr)
    /\ IsComparison(func_defs[1].body[1].expr.left)

\* the token at which the i-th parsed statement ended
AfterStatement(i) == Get(tokens, parser.ends[i])

\* a newline or the end of the tokens
EndsStatement(t) == t.t = "Newline" \/ t = NoToken

\* the body of fn f ( ) { ... with the given tokens after the brace
BodySource(e) == HeaderF \o <<Tok("LSquirly")>> \o e

\* C20: every statement that has been parsed, in a function body or in a
\* while body, is followed by a Newline or by the end of the tokens, except
\* the last one when the parse panicked with "Expected newline or EOF";
\* that panic happens exactly when the token after a parsed statement is
\* anything else, a closing '}' included; the terminator is consumed: the
\* statement after "x \n" is parsed from the token behind the newline.
C20_StatementTerminator ==
    /\ \A i \in 1..Len(parser.ends) :
          IF EndsStatement(AfterStatement(i))
          THEN ~(i = Len(parser.ends) /\ parser.err = ExpectedNewline)
          ELSE /\ i = Len(parser.ends)
               /\ pstate = "panicked"
               /\ parser.err = ExpectedNewline
    /\ parser.err = ExpectedNewline => parser.ends # <<>>
    /\ \A i \in 1..(Len(parser.ends) - 1) :
          parser.ends[i + 1] > parser.ends[i] + 1
    /\ (FirstParsed /\ tokens = BodySource(<<IdentX, Tok("RSquirly")>>)) =>
          parser.err = ExpectedNewline
    /\ (FirstParsed
           /\ tokens = BodySource(WhileHeader \o <<IdentX, Tok("RSquirly"),
                                                   Tok("Newline"), Tok("RSquirly")>>)) =>
          parser.err = ExpectedNewline
    /\ (FirstParsed
           /\ tokens = BodySource(<<IdentX, Tok("Newline"), IdentX, Tok("Newline"),
                                    Tok("RSquirly")>>)) =>
          /\ pstate # "panicked"
          /\ Len(func_defs[1].body) = 2

\* C20 witness: the statement of a while body was followed by '}' and the
\* parse panicked
C20_Witness ==
    /\ pstate = "panicked"
    /\ parser.err = ExpectedNewline
    /\ parser.ends # <<>>
    /\ AfterStatement(Len(parser.ends)).t = "RSquirly"
    /\ Len(tokens) >= Len(HeaderF) + 4
    /\ SubSeq(tokens, Len(HeaderF) + 2, Len(HeaderF) + 4) = WhileHeader

\* a while loop with a statement in its body was parsed as a statement
C20_WhileWitness ==
    /\ pstate = "returned"
    /\ Len(parser.ends) = 2
    /\ func_defs[1].body[1].s = "WhileLoop"

\* an index application: where the parse stops
Unimplemented == [e |-> "Unimplemented"]

\* an argument that is one token: a literal, or a name that nothing is
\* applied to
AtomAt(e, k) ==
    /\ k <= Len(e)
    /\ \/ e[k].t = "I64Literal"
       \/ /\ e[k].t = "Identifier"
          /\ k + 1 <= Len(e) => e[k + 1].t \notin {"LParen", "LSquare"}

\* the tree of the one-token argument at position k
AtomTree(e, k) ==
    IF e[k].t = "I64Literal" THEN [e |-> "I64Literal", n |-> e[k].v]
    ELSE [e |-> "Identifier", id |-> e[k].v]

RECURSIVE ArgList(_, _, _)
\* the argument list whose next argument is at position k: one-token
\* arguments separated by commas up to ')'; [args, next] with next the
\* position behind the ')', Bad when it is not of this form
ArgList(e, k, args) ==
    IF ~AtomAt(e, k) \/ k + 1 > Len(e) THEN Bad
    ELSE IF e[k + 1].t = "RParen"
         THEN [args |-> Append(args, AtomTree(e, k)), next |-> k + 2]
    ELSE IF e[k + 1].t = "Comma"
         THEN ArgList(e, k + 2, Append(args, AtomTree(e, k)))
    ELSE Bad

\* the argument list that the '(' at position k opens
ArgsAt(e, k) ==
    IF k + 1 <= Len(e) /\ e[k + 1].t = "RParen"
    THEN [args |-> <<>>, next |-> k + 2]
    ELSE ArgList(e, k + 1, <<>>)

RECURSIVE Chain(_, _, _)
\* the tree of a postfix chain, built left to right from position k on with
\* the tree so_far: each argument list makes a Call of so_far, a '['
\* after so_far is an index application; Bad when the text goes on otherwise
Chain(e, k, so_far) ==
    IF k > Len(e) THEN so_far
    ELSE IF e[k].t = "LSquare" THEN Unimplemented
    ELSE IF e[k].t # "LParen" \/ ArgsAt(e, k) = Bad THEN Bad
    ELSE Chain(e, ArgsAt(e, k).next, CallExpr(so_far, ArgsAt(e, k).args))

\* the tree of an expression that is a postfix chain on an identifier
ChainTree(e) ==
    IF Len(e) >= 2 /\ e[1].t = "Identifier" /\ e[2].t \in {"LParen", "LSquare"}
    THEN Chain(e, 2, [e |-> "Identifier", id |-> e[1].v])
    ELSE Bad

\* the tree tests::function_call expects
FunctionCallTree ==
    CallExpr([e |-> "Identifier", id |-> "print"],
             <<CallExpr(CallExpr([e |-> "Identifier", id |-> "f"], <<I64("1")>>),
                        <<I64("2")>>),
               I64("10"), I64("20")>>)

\* C22: a postfix chain on an identifier parses left to right, each argument
\* list making a Call whose callee is the expression built so far, so
\* f(1)(2) is Call(Call(f, [1]), [2]); a '[' behind the identifier or behind
\* an argument list panics with "not yet implemented" and no Program is
\* returned, and that panic needs a '['; print(f(1)(2), 10, 20) gives the
\* tree of the test.
C22_PostfixChain ==
    FirstParsed =>
        /\ ChainTree(ExprOf(tokens)) \notin {Bad, Unimplemented} =>
              /\ pstate # "panicked"
              /\ func_defs[1].body =
                    <<[s |-> "ExprStatement", expr |-> ChainTree(ExprOf(tokens))]>>
        /\ ChainTree(ExprOf(tokens)) = Unimplemented =>
              /\ pstate = "panicked"
              /\ parser.err = "not yet implemented"
              /\ func_defs = <<>>
        /\ parser.err = "not yet implemented" =>
              \E k \in 1..Len(tokens) : tokens[k].t = "LSquare"
        /\ ExprOf(tokens) = FunctionCallSource =>
              /\ pstate # "panicked"
              /\ func_defs[1].body[1].expr = FunctionCallTree

\* C22 witness: f(1)(2) was parsed to Call(Call(f, [1]), [2])
C22_Witness ==
    /\ pstate = "returned"
    /\ func_defs[1].body[1].expr =
          CallExpr(CallExpr([e |-> "Identifier", id |-> "f"], <<I64("1")>>),
                   <<I64("2")>>)

\* f(1)[ panicked in parse_index
C22_IndexWitness ==
    /\ pstate = "panicked"
    /\ parser.err = "not yet implemented"
    /\ Len(ExprOf(tokens)) >= 5
    /\ ExprOf(tokens)[5].t = "LSquare"
    /\ ChainTree(ExprOf(tokens)) = Unimplemented

\* the tokens after fn f ( ) {
BodyOf(ts) == SubSeq(ts, Len(HeaderF) + 2, Len(ts))

\* ret x + 5 (tests::return_statement)
ReturnStatementSource == <<Tok("Ret"), IdentX, Op("Plus"), Lit("5")>>

\* the tree tests::return_statement expects under ReturnStatement
ReturnStatementTree ==
    BinExpr([e |-> "Identifier", id |-> "x"], "Add", I64("5"))

\* the body starts with ret and a newline, or with ret and nothing more
BareRet(b) ==
    /\ b # <<>>
    /\ b[1].t = "Ret"
    /\ Len(b) >= 2 => b[2].t = "Newline"

\* 'ret e' with the expression of the test parses to a ReturnStatement
\* holding e
C21_RetWithExpression ==
    (FirstParsed
       /\ BodyOf(tokens) = ReturnStatementSource
                               \o <<Tok("Newline"), Tok("RSquirly")>>) =>
        /\ pstate # "panicked"
        /\ func_defs[1].body =
              <<[s |-> "ReturnStatement", expr |-> ReturnStatementTree]>>

\* C21: the expression of a return statement is optional: a 'ret' directly
\* followed by a newline or by the end of the tokens is parsed, without a
\* panic in the statement, to a ReturnStatement without an expression, and
\* 'ret e' to a ReturnStatement holding e.
C21_RetExpressionOptional ==
    /\ C21_RetWithExpression
    /\ (FirstParsed /\ BareRet(BodyOf(tokens))) =>
          /\ parser.ends # <<>>
          /\ parser.ends[1] = Len(HeaderF) + 2
          /\ pstate # "panicked" =>
                func_defs[1].body[1] = [s |-> "ReturnStatement", expr |-> NoneValue]

----------------------------------------------------------------------------
(* Properties of the code generator.                                       *)

\* the functions compile_func_def has left: all of the module but the one
\* being generated
Generated ==
    IF cstate = "body" \/ (cstate = "panicked" /\ compiler.err # Redefinition)
    THEN Len(compiler.module) - 1
    ELSE Len(compiler.module)

\* the last func_def has the name of an earlier one
Repeated ==
    /\ program # <<>>
    /\ \E j \in 1..(Len(program) - 1) : program[j].name = CurFuncDef.name

\* C4: compile takes the function definitions in the order of the Program:
\* the i-th function of the module is the i-th definition; the redefinition
\* panic is raised exactly at the first definition whose name an earlier one
\* has, with no function added for it; so the names of the functions in
\* the module are pairwise distinct.
C4_RedefinitionBeforeAdding ==
    LET module == compiler.module
    IN /\ \A i \in 1..Len(module) :
             i <= Len(program) /\ module[i].name = program[i].name
       /\ \A i, j \in 1..Len(module) : i # j => module[i].name # module[j].name
       /\ Repeated <=> compiler.err = Redefinition
       /\ Len(module) = IF Repeated THEN Len(program) - 1 ELSE Len(program)
       /\ Repeated => cstate = "panicked" /\ Generated = Len(module)

\* C4 witness: a second definition of a generated function's name panicked
C4_Witness ==
    /\ compiler.err = Redefinition
    /\ Len(program) = 2
    /\ Len(compiler.module) = 1

\* the statement the step CompileStatement compiles
CurStatement == CurFuncDef.body[si + 1]

\* the step compiles a statement that is the expression of kind e
Compiles(e) ==
    /\ cstate = "body"
    /\ si' = si + 1
    /\ CurStatement.s = "Expr"
    /\ CurStatement.expr.e = e

RECURSIVE ArgsInOrder(_, _, _)
\* the compiler and the values after lowering args[k], args[k + 1], ... one
\* after the other, stopping at the first that panics
ArgsInOrder(r, args, k) ==
    IF k > Len(args) \/ r.c.err # "" THEN r
    ELSE ArgsInOrder(
             [c |-> compile_expr(r.c, args[k]).c,
              v |-> Append(r.v, compile_expr(r.c, args[k]).v)],
             args, k + 1)

\* the step C5 is about: a call expression is lowered
CallLowered ==
    LET call_expr == CurStatement.expr
        callees == { i \in 1..Len(compiler.module) :
                        compiler.module[i].name = call_expr.function_name }
        lowered == ArgsInOrder(Result(compiler, <<>>), call_expr.args, 1)
    IN IF callees = {}
       THEN compiler' = [compiler EXCEPT !.err = UnknownFunction]
       ELSE IF \E i \in callees :
                  compiler.module[i].num_params # Len(call_expr.args)
            THEN compiler' = [compiler EXCEPT !.err = IncorrectArguments]
            ELSE IF lowered.c.err # ""
                 THEN compiler' = lowered.c
                 ELSE compiler' =
                          Build(lowered.c, Inst("call", call_expr.function_name,
                                                lowered.v)).c

\* C5: lowering a call first resolves the callee by name (panic if there is
\* none), then compares the argument count with the callee's parameter
\* count (panic if they differ), and only then lowers the arguments in
\* order and builds the call; when a check fails the compiler is as before
\* but for the panic: nothing was lowered, nothing was built.
C5_CallLowering == [][Compiles("Call") => CallLowered]_vars

\* the instructions of the function being generated
CurInsts == compiler.module[Len(compiler.module)].insts

\* C5 witness: g(a, b) was lowered inside g: a loaded, b loaded, g called
\* on the two loads
C5_Witness ==
    /\ cstate = "body"
    /\ si >= 1
    /\ CurFuncDef.body[si] =
           ExprStatement(Call("g", <<IdentifierExpr("a"), IdentifierExpr("b")>>))
    /\ LET n == Len(CurInsts)
       IN /\ n >= 3
          /\ CurInsts[n - 2].op = "load" /\ CurInsts[n - 2].name = "a"
          /\ CurInsts[n - 1].op = "load" /\ CurInsts[n - 1].name = "b"
          /\ CurInsts[n] = Inst("call", "g", <<InstValue(n - 2), InstValue(n - 1)>>)

\* the name is bound in some frame
Bound(sm, name) == \E i \in 1..Len(sm) : \E b \in sm[i] : b.name = name

\* the step C6 is about: an assignment is lowered
AssignmentLowered ==
    LET assign == CurStatement.expr
        value == compile_expr(compiler, assign.value)
    IN /\ compiler'.scope_manager = compiler.scope_manager
       /\ ~Bound(compiler.scope_manager, assign.name) =>
             /\ cstate' = "panicked"
             /\ value.c.err = "" => compiler'.err = UndeclaredVariable
       /\ Bound(compiler.scope_manager, assign.name) /\ value.c.err = "" =>
             /\ cstate' = "body"
             /\ compiler'.module[Len(compiler.module)].insts =
                    Append(value.c.module[Len(compiler.module)].insts,
                           Inst("store", "",
                                <<value.v,
                                  get_var(compiler.scope_manager, assign.name)>>))

\* C6: lowering an assignment never declares: a target bound in no frame
\* is a panic, and the frames of the scope manager (the names bound and
\* the slot of each) are after it what they were before it.
C6_AssignmentKeepsFrames == [][Compiles("Assign") => AssignmentLowered]_vars

\* C6 witness: inside g, with a and b bound, the assignment to the
\* undeclared x panicked and the frame still binds a and b only
C6_Witness ==
    /\ compiler.err = UndeclaredVariable
    /\ Len(compiler.scope_manager) = 1
    /\ { b.name : b \in compiler.scope_manager[1] } = {"a", "b"}

\* the instructions that are returns
Returns(insts) == { k \in 1..Len(insts) : insts[k].op \in {"ret", "ret void"} }

\* C7: a function that compile_func_def has left got a synthetic
\* 'return void' after its body exactly when the body is empty or its last
\* statement is not a Return; the last instruction built for it is a
\* return, the synthetic one if there is one, and it has one return per
\* Return statement besides.
C7_SyntheticReturn ==
    \A i \in 1..Generated :
        LET body == program[i].body
            insts == compiler.module[i].insts
            explicit == { k \in 1..Len(body) : body[k].s = "Return" }
            synthetic == body = <<>> \/ body[Len(body)].s # "Return"
        IN /\ i \in implicit_rets <=> synthetic
           /\ insts # <<>>
           /\ insts[Len(insts)].op \in {"ret", "ret void"}
           /\ synthetic => insts[Len(insts)] = Inst("ret void", "", <<>>)
           /\ Cardinality(Returns(insts)) =
                  Cardinality(explicit) + IF synthetic THEN 1 ELSE 0

\* C7 witness: two functions were generated, the first with a synthetic
\* return after a body that does not end in a Return, the second without
\* one after a body that does
C7_Witness ==
    /\ Generated = 2
    /\ program[1].body # <<>>
    /\ implicit_rets = {1}
    /\ program[2].body[Len(program[2].body)].s = "Return"

\* C8: only functions declared Void get the synthetic 'return void'.
C8_SyntheticReturnOnlyVoid ==
    \A i \in implicit_rets : program[i].return_type = "Void"

\* the token is a newline, a comment or a docstring
IsBlank(t) == t.t \in {"Newline", "Comment", "Docstring"}

\* a body of statements x, each ended by a newline, with newlines, comments
\* and docstrings around them, closed by its only '}'
BlankBody(b) ==
    /\ b # <<>>
    /\ b[Len(b)].t = "RSquirly"
    /\ \A k \in 1..(Len(b) - 1) :
          /\ b[k].t # "RSquirly"
          /\ b[k].t = "Identifier" => b[k + 1].t = "Newline"

\* the statements of such a body: one ExprStatement for every x
RealStatements(b) ==
    [k \in 1..Cardinality({ j \in 1..Len(b) : b[j].t = "Identifier" }) |->
        [s |-> "ExprStatement", expr |-> [e |-> "Identifier", id |-> "x"]]]

\* a newline, comment or docstring stands right in front of the '}': behind
\* the '{' or behind the newline that ended the last statement
BlankBeforeClose(b) ==
    /\ Len(b) >= 2
    /\ ~(Len(b) >= 3 /\ b[Len(b) - 2].t = "Identifier")

\* newlines, comments and docstrings in front of a statement are skipped:
\* a body closed right behind '{' or right behind the newline of its last
\* statement parses to its statements
C28_BlanksBeforeStatements ==
    (FirstParsed /\ BlankBody(BodyOf(tokens))
        /\ ~BlankBeforeClose(BodyOf(tokens))) =>
       /\ pstate # "panicked"
       /\ func_defs[1].body = RealStatements(BodyOf(tokens))

\* C28: newlines, comments and docstrings in a body make no statement and no
\* error: a body with only such tokens, or with such tokens between the
\* newline of its last statement and '}', parses to its statements.
C28_BlanksInBody ==
    (FirstParsed /\ BlankBody(BodyOf(tokens))) =>
       /\ pstate # "panicked"
       /\ func_defs[1].body = RealStatements(BodyOf(tokens))

\* what happens instead: the blank tokens in front of '}' are skipped by
\* parse_statement, which then parses '}' as an expression
C28_BlankBeforeClosePanics ==
    (FirstParsed /\ BlankBody(BodyOf(tokens))
        /\ BlankBeforeClose(BodyOf(tokens))) =>
       /\ pstate = "panicked"
       /\ parser.err = "Expected identifier or literal"
       /\ func_defs = <<>>

----------------------------------------------------------------------------
(* Properties of discarding the code generator and of verification.        *)

\* the handles of a Compiler in the order they are to be released
ReleaseOrder == <<"pass_manager", "target_machine", "builder", "module", "context">>

\* how often a handle has been released
Releases(handle) == Cardinality({ k \in 1..Len(released) : released[k] = handle })

\* C23: when the code generator is discarded each of its backend handles is
\* released exactly once, in the order pass manager, target machine,
\* builder, module, context: whenever a handle has been released, every
\* handle before it in this order has been, earlier; until it is discarded
\* nothing is released.
C23_ReleaseOrder ==
    /\ \A k \in 1..Len(released) : released[k] = ReleaseOrder[k]
    /\ Len(released) \in {0, Len(ReleaseOrder)}
    /\ \A k \in 1..Len(ReleaseOrder) : Releases(ReleaseOrder[k]) <= 1
    /\ cstate \in {"compile", "body"} => released = <<>>

\* C23 witness: a code generator that compiled two functions was discarded
C23_Witness ==
    /\ cstate = "returned"
    /\ Len(program) = 2
    /\ \A k \in 1..Len(ReleaseOrder) : Releases(ReleaseOrder[k]) = 1

\* discarded while a panic unwinds
C23_PanicWitness ==
    /\ cstate = "panicked"
    /\ released = ReleaseOrder

\* C24: LLVMVerifyFunction is called once for every function
\* compile_func_def has left, in the order of the Program and with the
\* function's scope frame popped, and what it returns changes nothing: after
\* a failed verification there is no panic and compile goes on with the next
\* definition, so a panic always lies before the verification of the
\* function it occurred in.
C24_VerificationNotInspected ==
    /\ Len(verified) = Generated
    /\ \A k \in 1..Len(verified) :
          /\ verified[k].func = k
          /\ verified[k].depth = 0
    /\ cstate = "panicked" => Len(verified) = Len(program) - 1
    /\ (Len(verified) = Len(program) /\ verified # <<>>
           /\ verified[Len(verified)].failed) =>
          /\ cstate \in {"compile", "returned"}
          /\ compiler.err = ""

\* C24 witness: the first function failed verification, the second was
\* compiled and verified, compile returned
C24_Witness ==
    /\ cstate = "returned"
    /\ Len(verified) = 2
    /\ verified[1].failed
    /\ Len(compiler.module) = 2
    /\ compiler.module[2].insts # <<>>

----------------------------------------------------------------------------
(* Properties of scopes and of name resolution in the code generator.      *)

RECURSIVE ExprNames(_)
\* the variable names an expression reads or assigns
ExprNames(expr) ==
    CASE expr.e = "Identifier" -> {expr.id}
      [] expr.e = "Binary" -> ExprNames(expr.left) \cup ExprNames(expr.right)
      [] expr.e = "Call" ->
            UNION { ExprNames(expr.args[k]) : k \in 1..Len(expr.args) }
      [] expr.e = "Assign" -> {expr.name} \cup ExprNames(expr.value)
      [] OTHER -> {}

\* the variable names a statement reads or assigns
Mentions(statement) ==
    CASE statement.s = "Expr" -> ExprNames(statement.expr)
      [] statement.s = "Return" -> ExprNames(statement.r)
      [] statement.s = "VarDeclarations" ->
            UNION { ExprNames(statement.v[k].var_value) :
                        k \in 1..Len(statement.v) }
      [] OTHER -> {}

\* the names a statement declares
Declares(statement) ==
    IF statement.s = "VarDeclarations"
    THEN { statement.v[k].var_name : k \in 1..Len(statement.v) }
    ELSE {}

\* the names of the parameters of a function definition
ParamNames(func_def) ==
    { func_def.params[k].param_name : k \in 1..Len(func_def.params) }

\* the names of the function being compiled after n of its statements: its
\* parameters and the locals those statements declare
OwnNames(n) ==
    ParamNames(CurFuncDef)
        \cup UNION { Declares(CurFuncDef.body[k]) : k \in 1..n }

\* the names bound in some frame of the scope stack
BoundNames ==
    { b.name : b \in UNION { compiler.scope_manager[i] :
                                 i \in 1..Len(compiler.scope_manager) } }

\* C25: scope frames are balanced per function: between functions and after
\* compile the stack is empty; inside a function it has exactly one
\* frame, which holds the parameters when the body starts and only names of
\* this function later; a statement that mentions a parameter or local of
\* an earlier function only, or any other name that is not this function's,
\* does not compile: it panics, with the undefined-identifier error when
\* the name is read.
C25_ScopesBalanced ==
    /\ cstate \in {"compile", "returned"} => compiler.scope_manager = <<>>
    /\ cstate = "body" =>
          /\ Len(compiler.scope_manager) = 1
          /\ si = 0 => BoundNames = ParamNames(CurFuncDef)
          /\ BoundNames = OwnNames(si)
          /\ \A k \in 1..si : Mentions(CurFuncDef.body[k]) \subseteq OwnNames(k)
    /\ compiler.err = UndefinedIdentifier =>
          /\ cstate = "panicked"
          /\ ~(Mentions(CurFuncDef.body[si]) \subseteq OwnNames(si))

\* C25 witness: g(i64 a, i64 b) was compiled, and in the f that follows the
\* call g(a, b) panicked: a is not defined
C25_Witness ==
    /\ cstate = "panicked"
    /\ compiler.err = UndefinedIdentifier
    /\ Len(program) = 2
    /\ program[1].name = "g"
    /\ si = 1
    /\ CurFuncDef.body[1] =
          ExprStatement(Call("g", <<IdentifierExpr("a"), IdentifierExpr("b")>>))
    /\ Len(compiler.scope_manager) = 1

\* a local of the first function is used in the second
C25_LocalWitness ==
    /\ cstate = "panicked"
    /\ compiler.err = UndefinedIdentifier
    /\ Len(program) = 2
    /\ "x" \in UNION { Declares(program[1].body[k]) : k \in 1..Len(program[1].body) }
    /\ "x" \in Mentions(CurFuncDef.body[si])
    /\ "x" \notin OwnNames(si)

\* the names of the functions compile has reached: those before the one
\* being compiled, and that one
BegunNames == { program[j].name : j \in 1..Len(program) }

\* the statement is a call
IsCall(statement) == statement.s = "Expr" /\ statement.expr.e = "Call"

\* C26: a function is in the module from before its body is lowered, and a
\* call resolves exactly to the functions compile has reached: a call of
\* the function being compiled or of an earlier one never panics with the
\* unknown-function error, and a call of any other name, a function
\* defined later in the Program included, panics with it.
C26_CallsResolveToBegun ==
    /\ cstate = "body" =>
          /\ Len(compiler.module) = Len(program)
          /\ compiler.module[Len(program)].name = CurFuncDef.name
    /\ (cstate \in {"body", "panicked"} /\ si >= 1 /\ IsCall(CurFuncDef.body[si])) =>
          (compiler.err = UnknownFunction
               <=> CurFuncDef.body[si].expr.function_name \notin BegunNames)
    /\ compiler.err = UnknownFunction =>
          /\ cstate = "panicked"
          /\ si >= 1
          /\ IsCall(CurFuncDef.body[si])

\* C26 witness: inside f, the call f() was lowered
C26_Witness ==
    /\ cstate = "body"
    /\ Len(program) = 1
    /\ CurFuncDef.name = "f"
    /\ si = 1
    /\ CurFuncDef.body[1] = ExprStatement(Call("f", <<>>))
    /\ CurInsts[Len(CurInsts)] = Inst("call", "f", <<>>)

\* inside g, after f, a call of f was lowered
C26_EarlierWitness ==
    /\ cstate = "body"
    /\ Len(program) = 2
    /\ program[1].name = "f"
    /\ si >= 1
    /\ CurFuncDef.body[si] = ExprStatement(Call("f", <<>>))

\* inside the first function, f, a call of g panicked
C26_LaterWitness ==
    /\ cstate = "panicked"
    /\ compiler.err = UnknownFunction
    /\ Len(program) = 1
    /\ CurFuncDef.name = "f"
    /\ CurFuncDef.body[si].expr.function_name = "g"

\* the statement declares one variable whose initializer is the variable
SelfInitialized(statement) ==
    /\ statement.s = "VarDeclarations"
    /\ Len(statement.v) = 1
    /\ statement.v[1].var_value = IdentifierExpr(statement.v[1].var_name)

\* the last slot allocated for the name in the function being compiled
LastAlloca(name) ==
    CHOOSE k \in 0..Len(CurInsts) :
        /\ k > 0 => CurInsts[k] = Inst("alloca", name, <<>>)
        /\ \A j \in (k + 1)..Len(CurInsts) : CurInsts[j] # Inst("alloca", name, <<>>)

\* C27: a declaration binds the name to its fresh slot before the
\* initializer is lowered: a declaration whose initializer is the declared
\* name never panics, its initializer is a load from the new slot, stored
\* to the new slot; and after every declaration the name resolves to the
\* slot allocated last, whether or not it was bound before.
C27_BoundBeforeInitializer ==
    (cstate \in {"body", "panicked"} /\ si >= 1
        /\ CurFuncDef.body[si].s = "VarDeclarations") =>
       LET d == CurFuncDef.body[si].v[1]
           k == LastAlloca(d.var_name)
       IN /\ k > 0
          /\ cstate = "body" =>
                get_var(compiler.scope_manager, d.var_name) = InstValue(k)
          /\ SelfInitialized(CurFuncDef.body[si]) =>
                /\ cstate = "body"
                /\ Len(CurInsts) = k + 2
                /\ CurInsts[k + 1] = Inst("load", d.var_name, <<InstValue(k)>>)
                /\ CurInsts[k + 2] =
                      Inst("store", "", <<InstValue(k + 1), InstValue(k)>>)

\* C27 witness: i64 x = x was lowered where no x was bound
C27_Witness ==
    /\ cstate = "body"
    /\ si = 1
    /\ CurFuncDef.params = <<>>
    /\ SelfInitialized(CurFuncDef.body[1])
    /\ CurInsts = <<Inst("alloca", "x", <<>>),
                    Inst("load", "x", <<InstValue(1)>>),
                    Inst("store", "", <<InstValue(2), InstValue(1)>>)>>

\* i64 x = x was lowered after i64 x = 1: x resolves to the second slot
C27_ReboundWitness ==
    /\ cstate = "body"
    /\ si = 2
    /\ CurFuncDef.body[1] = VarDeclarations(<<VarDeclaration("I64", "x", LiteralExpr(1))>>)
    /\ SelfInitialized(CurFuncDef.body[2])
    /\ LastAlloca("x") > 1
    /\ get_var(compiler.scope_manager, "x") = InstValue(LastAlloca("x"))

====
